---- MODULE Spec2Model ----
(***************************************************************************)
(* Storefront renderer: the cache-aside resolution pipeline and its edges.  *)
(*                                                                         *)
(*   tenant resolver   src/src/services/tenant-service.ts                  *)
(*   theme loader      src/src/services/theme-service.ts                   *)
(*   catalog provider  src/unnamed/part_005 (services/product-service)     *)
(*   service catalog   src/unnamed/part_004 (services/microservices)       *)
(*   storefront route  src/unnamed/part_000 (routes/storefront)            *)
(*   page renderer     src/src/services/renderer-service.ts                *)
(*   block renderer    src/unnamed/part_008 (renderBlock, POST /preview)   *)
(*   error handler     src/src/middleware/error-handler.ts                 *)
(*   health probes     src/src/routes/health.ts                            *)
(*   cart routes       src/unnamed/part_002 (checkout, validate-discount)  *)
(*   rate limiter      src/src/middleware/rate-limiter.ts                  *)
(*   cart store        src/src/lib/cart-store.ts                           *)
(*                                                                         *)
(* Strings that the code builds by interpolation are sequences of tokens,  *)
(* so that key prefixing and pattern matching are computed, not assumed.   *)
(* An optional value is a sequence of length 0 (null) or 1.                *)
(***************************************************************************)
EXTENDS Integers, Sequences, FiniteSets, TLC

\* ------------------------------------------------------------------------
\* Bounds of the model
\* ------------------------------------------------------------------------
TickSeconds == 2400
MaxTenantTime == 4800
MaxRegistryChanges == 1
MaxDataTime == 2400
MaxThemeTime == 4800
MaxPublishes == 1
MaxPurgeRequests == 4
MaxBlocks == 2
MaxHandleLen == 4
MaxLimiterTime == 2400
MaxQuantity == 3
\* config.security.rateLimitMaxRequests of the configuration that is run
\* (the schema's default is 100)
rateLimitMaxRequests == 3

Procs == {"p1", "p2"}

Hosts == {"h1", "h2"}
TenantIds == {"t1", "t2"}
TenantCalls == {"a"}
\* a second request resolving a tenant at the same time
ConcurrentCalls == {"b"}
AllTenantCalls == TenantCalls \cup ConcurrentCalls

\* ------------------------------------------------------------------------
\* Program constants
\* ------------------------------------------------------------------------
TenantCacheTTL == 3600
dataCacheTTL == 300
themesCacheTTL == 3600
DefaultLimit == 20
DefaultOffset == 0
ServiceCacheTTL == 120
ServiceDefaultLimit == 20
rateLimitWindowMs == 60000
keyPrefix == "renderer:"

None == << >>
Some(x) == << x >>

VARIABLES
    now,            \* wall clock, seconds
    redis,          \* distributed cache: full key -> [val, exp]
    domainMapping,  \* platform.domain_mapping: host -> optional [tenant_id, verified]
    tenantStatus,   \* platform.tenants.status per tenant id
    registryChanges,\* number of registry changes made so far
    tenantCall,     \* in-flight getTenantFromHost calls
    invTenant,      \* in-flight invalidateTenantCache call
    tenantClean,    \* history: host invalidated and not filled since
    dataCall,       \* in-flight getProducts / getCollections call
    invData,        \* in-flight invalidateProductCache call
    dataClean,      \* history: tenant's catalog caches invalidated, not filled since
    memoryCache,    \* per renderer process: NodeCache, key -> [val, exp]
    themeRow,       \* tenant_{t}.themes WHERE role = 'main': optional row
    s3,             \* theme bucket: object key -> body
    publishes,      \* number of theme publishes so far
    themeCall,      \* per process: in-flight getThemeForTenant call
    invTheme,       \* in-flight invalidateThemeCache call
    themeFreshUntil,\* history: per process and tenant, end of the TTL window
                    \* of the last completed storage load
    themeClean,     \* history: tenant's theme invalidated, no tier filled since
    svcCall,        \* in-flight getProductsFromService call
    purgeCall,      \* in-flight purgeCDNCache call
    cdnPurged,      \* CDN: surrogate keys purged and not cached again since
    purgeRequests,  \* number of purge requests sent to the CDN so far
    preview,        \* in-flight POST /preview request, and the last page it produced
    shopProducts,   \* products table of the block server: tenant -> active product names
    req,            \* the storefront GET request in flight, and its response
    errCall,        \* an error passed to errorHandler, and what the handler did
    health,         \* the GET /health/ready request in flight, and its response
    checkout,       \* the POST /cart/... request in flight, and its response
    handleCall,     \* the handleize filter: its input and its output
    mappingHistory, \* history: per host, the last mapping change and whether an
                    \* invalidation of the host has completed since
    limiter,        \* rate limiter: the requests inside the middleware
    cart            \* the cart store: items and stored totals

vars == << now, redis, domainMapping, tenantStatus, registryChanges,
           tenantCall, invTenant, tenantClean, dataCall, invData, dataClean,
           memoryCache, themeRow, s3, publishes, themeCall, invTheme,
           themeFreshUntil, themeClean, svcCall, purgeCall, cdnPurged,
           purgeRequests, preview, shopProducts, req, errCall, health, checkout,
           handleCall, mappingHistory, limiter, cart >>

svcVars == << svcCall >>
purgeVars == << purgeCall, cdnPurged, purgeRequests >>
blockVars == << preview, shopProducts >>
reqVars == << req >>
errVars == << errCall >>
healthVars == << health >>
checkoutVars == << checkout >>
filterVars == << handleCall >>
raceVars == << mappingHistory >>
limitVars == << limiter >>
cartVars == << cart >>
lateVars == << errVars, healthVars, checkoutVars, filterVars, raceVars, limitVars, cartVars >>
edgeVars == << svcVars, purgeVars, blockVars, reqVars, lateVars >>
notRace == << svcVars, purgeVars, blockVars, reqVars, errVars, healthVars, checkoutVars,
              filterVars, limitVars, cartVars >>
tenantVars == << domainMapping, tenantStatus, registryChanges, tenantCall,
                 invTenant, tenantClean >>
dataVars == << dataCall, invData, dataClean >>
themeVars == << memoryCache, themeRow, s3, publishes, themeCall, invTheme,
                themeFreshUntil, themeClean >>

\* ------------------------------------------------------------------------
\* JSON.stringify / JSON.parse of a cached value
\* ------------------------------------------------------------------------
Stringify(x) == [json |-> x]
Parse(s) == s.json

\* ------------------------------------------------------------------------
\* The ioredis client, constructed with keyPrefix: commands that take keys
\* (GET, SETEX, DEL) have the prefix put before every key argument; KEYS
\* takes a pattern, which is sent as written, and answers full key names.
\* ------------------------------------------------------------------------
Prefixed(key) == << keyPrefix >> \o key

EmptyStore == [k \in {} |-> None]

Live(store, t) == { k \in DOMAIN store : store[k].exp > t }

RedisGet(store, key, t) ==
    IF Prefixed(key) \in Live(store, t) THEN Some(store[Prefixed(key)].val) ELSE None

RedisSetex(store, key, ttl, val, t) ==
    [ k \in DOMAIN store \cup { Prefixed(key) } |->
        IF k = Prefixed(key) THEN [val |-> val, exp |-> t + ttl] ELSE store[k] ]

RedisDel(store, keys) ==
    [ k \in DOMAIN store \ { Prefixed(key) : key \in keys } |-> store[k] ]

\* A glob pattern ending in "*" matches the keys that begin with the rest.
GlobMatch(pattern, name) ==
    /\ Len(name) >= Len(pattern) - 1
    /\ SubSeq(name, 1, Len(pattern) - 1) = SubSeq(pattern, 1, Len(pattern) - 1)

RedisKeys(store, pattern, t) == { k \in Live(store, t) : GlobMatch(pattern, k) }

\* Expired entries are not observable; the clock step drops them.
Expire(store, t) == [ k \in Live(store, t) |-> store[k] ]

\* ------------------------------------------------------------------------
\* Tenant resolver
\* ------------------------------------------------------------------------
TenantCacheKeyNoHost(host) == << "tenant:host:" >>

TenantCacheKey(host) == << "tenant:host:", host >>

\* SELECT ... FROM platform.tenants t INNER JOIN platform.domain_mapping dm
\* WHERE dm.domain = $1 AND dm.verified = true AND t.status = 'active'
QueryTenantAnyMapping(mapping, status, host) ==
    IF mapping[host] # None
    THEN << [tenant_id |-> mapping[host][1].tenant_id,
             status |-> status[mapping[host][1].tenant_id]] >>
    ELSE << >>

QueryTenant(mapping, status, host) ==
    IF /\ mapping[host] # None
       /\ mapping[host][1].verified = TRUE
       /\ status[mapping[host][1].tenant_id] = "active"
    THEN << [tenant_id |-> mapping[host][1].tenant_id,
             status |-> status[mapping[host][1].tenant_id]] >>
    ELSE << >>

\* History: the host has an active, verified mapping in the registry.
ActiveVerified(mapping, status, host) ==
    \E t \in TenantIds :
        /\ mapping[host] = Some([tenant_id |-> t, verified |-> TRUE])
        /\ status[t] = "active"

\* catch (error) { logger.error(...); throw error; }
TenantCatchSwallow(c, err) ==
    [c EXCEPT !.pc = "done", !.outcome = "return", !.result = None, !.failedAt = err]

TenantCatch(c, err) ==
    [c EXCEPT !.pc = "done", !.outcome = "error", !.error = err, !.result = None,
              !.failedAt = err]

IdleTenantCall ==
    [ pc |-> "idle", host |-> "h1", outcome |-> "none", result |-> None,
      error |-> "none", failedAt |-> "none", hit |-> FALSE, queried |-> FALSE,
      matched |-> FALSE, wroteTTL |-> 0, wroteAt |-> 0, stored |-> None,
      seenEntry |-> None,
      everMapped |-> FALSE, readClean |-> FALSE,
      startedSettled |-> FALSE, preChange |-> None ]

\* history: startedSettled says that the call began after the host's mapping
\* had changed and an invalidation of the host begun after the change had
\* completed; preChange is what the registry answered before that change
IdleInvTenant == [pc |-> "idle", host |-> "h1", had |-> FALSE, afterChange |-> FALSE]

NoMappingChange == [changed |-> FALSE, invalidated |-> FALSE, before |-> None]

\* An invalidation that began after the change has deleted the host's entry
NoteInvalidation(history, inv) ==
    IF inv.afterChange
    THEN [history EXCEPT ![inv.host].invalidated = TRUE]
    ELSE history

\* ------------------------------------------------------------------------
\* Catalog data provider: getProducts / getCollections
\* ------------------------------------------------------------------------
\* The tenant's products and collections, newest first (ORDER BY created_at DESC).
ProductRows(t) ==
    IF t = "t1"
    THEN << [id |-> "p3", handle |-> "hat",   status |-> "active", collections |-> {"c1"},
             featured |-> FALSE],
            [id |-> "p2", handle |-> "shirt", status |-> "draft",  collections |-> {"c1"},
             featured |-> TRUE],
            [id |-> "p1", handle |-> "shirt", status |-> "active", collections |-> {},
             featured |-> TRUE] >>
    ELSE << [id |-> "p4", handle |-> "hat",   status |-> "active", collections |-> {"c1"},
             featured |-> FALSE] >>

CollectionRows(t) ==
    IF t = "t1"
    THEN << [id |-> "c2", handle |-> "sale", published |-> FALSE],
            [id |-> "c1", handle |-> "summer", published |-> TRUE] >>
    ELSE << [id |-> "c1", handle |-> "summer", published |-> TRUE] >>

\* The option objects the route resolver passes (absent fields are None).
NoOptions ==
    [handle |-> None, collection_id |-> None, featured |-> None,
     limit |-> None, offset |-> None]

ProductOptions ==
    { [NoOptions EXCEPT !.handle = Some("shirt"), !.limit = Some(1)],
      [NoOptions EXCEPT !.collection_id = Some("c1")] }

CollectionOptions ==
    { [NoOptions EXCEPT !.handle = Some("summer"), !.limit = Some(1)] }

\* The wider set of option objects: the home page's, a page of a listing,
\* and two that differ in one field only.
CatalogProductOptions ==
    { [NoOptions EXCEPT !.featured = Some(TRUE), !.limit = Some(8)],
      [NoOptions EXCEPT !.handle = Some("shirt"), !.limit = Some(1)],
      [NoOptions EXCEPT !.handle = Some("shirt")],
      [NoOptions EXCEPT !.limit = Some(1), !.offset = Some(1)] }

CatalogCollectionOptions ==
    { [NoOptions EXCEPT !.limit = Some(3)],
      [NoOptions EXCEPT !.handle = Some("summer"), !.limit = Some(1)] }

BoolStr(b) == IF b THEN "true" ELSE "false"

NumStr(n) ==
    << "0", "1", "2", "3", "4", "5", "6", "7", "8", "9", "10", "11", "12", "13",
       "14", "15", "16", "17", "18", "19", "20" >>[n + 1]

\* JSON.stringify(options): the present fields, in the order they were written.
OptionsJsonHandleOnly(o) ==
    << "{" >>
    \o (IF o.handle # None THEN << "handle:", o.handle[1] >> ELSE << >>)
    \o << "}" >>

OptionsJson(o) ==
    << "{" >>
    \o (IF o.handle # None THEN << "handle:", o.handle[1] >> ELSE << >>)
    \o (IF o.collection_id # None THEN << "collection_id:", o.collection_id[1] >> ELSE << >>)
    \o (IF o.featured # None THEN << "featured:", BoolStr(o.featured[1]) >> ELSE << >>)
    \o (IF o.limit # None THEN << "limit:", NumStr(o.limit[1]) >> ELSE << >>)
    \o (IF o.offset # None THEN << "offset:", NumStr(o.offset[1]) >> ELSE << >>)
    \o << "}" >>

ProductsCacheKey(tenantId, options) ==
    << "products:", tenantId, ":" >> \o OptionsJson(options)

CollectionsCacheKey(tenantId, options) ==
    << "collections:", tenantId, ":" >> \o OptionsJson(options)

Min(a, b) == IF a < b THEN a ELSE b

\* LIMIT $n OFFSET $m
LimitOffset(rows, options) ==
    LET limit == IF options.limit # None THEN options.limit[1] ELSE DefaultLimit
        offset == IF options.offset # None THEN options.offset[1] ELSE DefaultOffset
    IN  SubSeq(rows, offset + 1, Min(Len(rows), offset + limit))

\* WHERE p.status = 'active' [AND p.handle = $h] [AND p.id IN (collection)]
ProductMatches(p, options) ==
    /\ p.status = "active"
    /\ (options.handle # None => p.handle = options.handle[1])
    /\ (options.collection_id # None => options.collection_id[1] \in p.collections)

QueryProducts(tenantId, options) ==
    LimitOffset(SelectSeq(ProductRows(tenantId), LAMBDA p : ProductMatches(p, options)),
                options)

\* WHERE c.published = true [AND c.handle = $h]
CollectionMatches(c, options) ==
    /\ c.published = TRUE
    /\ (options.handle # None => c.handle = options.handle[1])

QueryCollections(tenantId, options) ==
    LimitOffset(SelectSeq(CollectionRows(tenantId), LAMBDA c : CollectionMatches(c, options)),
                options)

IdleDataCall ==
    [ pc |-> "idle", kind |-> "products", tenant |-> "t1", options |-> NoOptions,
      outcome |-> "none", result |-> << >>, hit |-> FALSE, servedFor |-> None ]

IdleInvData ==
    [ pc |-> "idle", tenant |-> "t1", keys |-> {}, had |-> FALSE, raced |-> FALSE ]

DataCacheKey(call) ==
    IF call.kind = "products"
    THEN ProductsCacheKey(call.tenant, call.options)
    ELSE CollectionsCacheKey(call.tenant, call.options)

\* History: the call (function, tenant, options) an entry was written by.
CalledWith(call) == [kind |-> call.kind, tenant |-> call.tenant, options |-> call.options]

\* JSON.stringify(rows), with the history of the writing call.
DataEntry(call) == [json |-> Parse(Stringify(call.result)), cachedFor |-> CalledWith(call)]

\* ------------------------------------------------------------------------
\* Service-backed catalog: getProductsFromService (services/microservices)
\* ------------------------------------------------------------------------
\* The option objects the service-backed route resolver passes.
ServiceOptions ==
    { [NoOptions EXCEPT !.limit = Some(12)],
      [NoOptions EXCEPT !.handle = Some("shirt"), !.limit = Some(1)] }

ServiceCacheKey(tenantId, options) ==
    << "storefront:products:", tenantId, ":" >> \o OptionsJson(options)

\* GET {products}/api/products?tenant_id=..&status=active&limit=..&offset=..[&handle=..]
\* answered by the products service: { products, total }
ServiceResponse(tenantId, options) ==
    LET matching == SelectSeq(ProductRows(tenantId),
                        LAMBDA p : /\ p.status = "active"
                                   /\ (options.handle # None => p.handle = options.handle[1]))
        limit == IF options.limit # None /\ options.limit[1] # 0
                 THEN options.limit[1] ELSE ServiceDefaultLimit
        offset == IF options.offset # None THEN options.offset[1] ELSE 0
    IN  [ products |-> SubSeq(matching, offset + 1, Min(Len(matching), offset + limit)),
          total |-> Len(matching) ]

\* The outcomes of axios.get(url, { timeout: 5000 }): a 2xx response, or an
\* error (connection failure, non-2xx status, no answer within the timeout).
HttpOutcomes == { "ok", "network", "status", "timeout" }

\* return { products: [], total: 0 }
EmptyResult == [ products |-> << >>, total |-> 0 ]

IdleSvcCall ==
    [ pc |-> "idle", tenant |-> "t1", options |-> NoOptions, outcome |-> "none",
      result |-> EmptyResult, failedAt |-> "none", hit |-> FALSE, before |-> None ]

\* catch (error) { logger.error(...); return { products: [], total: 0 }; }
SvcCatchRethrow(c, err) ==
    [c EXCEPT !.pc = "done", !.outcome = "error", !.failedAt = err]

SvcCatch(c, err) ==
    [c EXCEPT !.pc = "done", !.outcome = "return", !.result = EmptyResult,
              !.failedAt = err]

\* ------------------------------------------------------------------------
\* purgeCDNCache (Cloudflare purge by surrogate key)
\* ------------------------------------------------------------------------
\* tags: [`tenant_${tenantId}`]
SurrogateKey(tenantId) == << "tenant_", tenantId >>

\* The outcomes of fetch(): a 2xx response, a response that is not ok, or a
\* rejected promise (network error).
FetchOutcomes == { "ok", "not_ok", "network" }

\* The optional paths argument (the body purges by surrogate key only).
PurgePaths == { None, Some(<< "/" >>) }

IdlePurgeCall ==
    [ pc |-> "idle", tenant |-> "t1", paths |-> None, enabled |-> FALSE, outcome |-> "none",
      logged |-> "none", sent |-> FALSE, failed |-> FALSE ]

\* catch (error) { logger.error(...); /* Don't throw */ }
PurgeCatchRethrow(call) ==
    [call EXCEPT !.pc = "done", !.outcome = "error", !.failed = TRUE]

PurgeCatch(call) ==
    [call EXCEPT !.pc = "done", !.outcome = "return", !.logged = "error",
                 !.failed = TRUE]

\* ------------------------------------------------------------------------
\* Block renderer (src/unnamed/part_008): renderBlock and POST /preview
\* ------------------------------------------------------------------------
\* A configuration value as it arrives in the JSON body: its type and text.
Str(v) == [kind |-> "string", v |-> v]
Num(v) == [kind |-> "number", v |-> v]

NoConfig == [heading |-> None, videoUrl |-> None]

\* The blocks of the model: known types with and without configuration, a
\* video block whose videoUrl is a string and one whose videoUrl is a number,
\* a products block, a block of an unknown type and a block without type.
Blocks ==
    { [type |-> Some("text"), config |-> None],
      [type |-> Some("video"),
       config |-> Some([NoConfig EXCEPT !.videoUrl = Some(Str("https://youtu.be/dQw4w9WgXcQ"))])],
      [type |-> Some("video"),
       config |-> Some([NoConfig EXCEPT !.videoUrl = Some(Num("42"))])],
      [type |-> Some("products"),
       config |-> Some([NoConfig EXCEPT !.heading = Some(Str("New"))])],
      [type |-> Some("countdown"), config |-> None],
      [type |-> None, config |-> None] }

KnownBlockTypes == { "hero", "text", "image", "products", "video", "gallery" }

RECURSIVE BlockListsOfLen(_)
BlockListsOfLen(n) ==
    IF n = 0 THEN { << >> }
    ELSE { Append(l, b) : l \in BlockListsOfLen(n - 1), b \in Blocks }

BlockLists == UNION { BlockListsOfLen(n) : n \in 0..MaxBlocks }

\* The result of evaluating renderBlock: its HTML fragment, or a TypeError.
Fragment(html, db) == [ok |-> TRUE, html |-> html, db |-> db]
Throws == [ok |-> FALSE, html |-> << >>, db |-> FALSE]

\* `${x}` of a value that may be absent
Text(opt, default) == IF opt # None THEN opt[1].v ELSE default

\* const blockId = editable ? `data-block-id="${block.id}"` : ''
BlockIdAttr(editable) == IF editable THEN "data-block-id" ELSE ""

\* pool.query('SELECT ... FROM products WHERE tenant_id = $1 AND status = $2
\* ORDER BY created_at DESC LIMIT $3') inside try/catch: the rows, or none
\* when the query raises.
LoadBlockProducts(rows, fails) == IF fails THEN << >> ELSE rows

\* function renderBlock(block, editable = false)
renderBlock(block, editable, rows, fails) ==
    LET c == IF block.config # None THEN block.config[1] ELSE NoConfig
    IN  IF block.type = Some("text")
        THEN Fragment(<< "<text", BlockIdAttr(editable), Text(c.heading, ""),
                         "<p>Add your text here...</p>", ">" >>, FALSE)
        ELSE IF block.type = Some("video")
        THEN IF c.videoUrl # None /\ c.videoUrl[1].kind # "string"
             THEN Throws
             ELSE Fragment(<< "<video", Text(c.heading, ""),
                              IF c.videoUrl # None THEN "https://www.youtube.com/embed/dQw4w9WgXcQ"
                              ELSE "Add a YouTube or Vimeo URL", ">" >>, FALSE)
        ELSE IF block.type = Some("products")
        THEN LET realProducts == LoadBlockProducts(rows, fails)
             IN  Fragment(<< "<products", Text(c.heading, "") >>
                          \o (IF Len(realProducts) = 0
                              THEN << "No products available yet." >>
                              ELSE << BlockIdAttr(editable) >> \o realProducts)
                          \o << ">" >>, TRUE)
        ELSE Fragment(<< "<placeholder", "Block: ",
                         IF block.type # None THEN block.type[1] ELSE "undefined", ">" >>,
                      FALSE)

\* blocks.map(block => renderBlock(block, editable)).join('')
RECURSIVE RenderBlocks(_, _, _, _, _, _)
RenderBlocks(blocks, editable, rows, fails, i, acc) ==
    IF i > Len(blocks) THEN acc
    ELSE LET f == renderBlock(blocks[i], editable, rows, fails)
         IN  IF ~f.ok THEN Throws
             ELSE RenderBlocks(blocks, editable, rows, fails, i + 1,
                               Fragment(acc.html \o f.html, acc.db \/ f.db))

IdlePreview ==
    [ pc |-> "idle", blocks |-> None, tenantId |-> "t1", editable |-> FALSE,
      status |-> 0, html |-> << >>, touchedDb |-> FALSE, last |-> None ]

\* History: what a request asked for.
PreviewInput(r) == [blocks |-> r.blocks, tenantId |-> r.tenantId, editable |-> r.editable]

\* ------------------------------------------------------------------------
\* Storefront route (src/unnamed/part_000): GET *, resolveRoute, renderPage
\* ------------------------------------------------------------------------
\* req.path as the sequence of its segments after the leading slash:
\* "" is << >>, "/" is << "" >>, "/products/shirt" is << "products", "shirt" >>.
\* A trailing slash leaves an empty last segment.
Paths ==
    { << >>, << "" >>,
      << "products", "shirt" >>, << "products", "nope" >>, << "products", "Shirt" >>,
      << "products", "" >>, << "products", "shirt", "" >>,
      << "collections", "summer" >>, << "collections", "nope" >>,
      << "pages", "about" >>, << "pages", "nope" >>, << "pages", "a.b" >>,
      << "cart" >> }

\* The segments that consist of lowercase letters, digits and hyphens only,
\* and have at least one character: [a-z0-9-]+
HandleSegments == { "shirt", "nope", "summer", "about", "products", "cart", "t-shirt-9" }

\* path.match(/^\/{first}\/([a-z0-9-]+)$/): the handle, or no match
MatchHandleRouteAnySegment(path, first) ==
    IF Len(path) = 2 /\ path[1] = first /\ path[2] # ""
    THEN Some(path[2]) ELSE None

MatchHandleRoute(path, first) ==
    IF Len(path) = 2 /\ path[1] = first /\ path[2] \in HandleSegments
    THEN Some(path[2]) ELSE None

\* path === '/' || path === ''
IsRoot(path) == path = << "" >> \/ path = << >>

\* The branch of resolveRoute a path takes: the ifs in their order.
RouteKind(path) ==
    IF IsRoot(path) THEN "home"
    ELSE IF MatchHandleRoute(path, "products") # None THEN "product"
    ELSE IF MatchHandleRoute(path, "collections") # None THEN "collection"
    ELSE IF MatchHandleRoute(path, "pages") # None THEN "page"
    ELSE "none"

NoData == [collections |-> None, products |-> None]

\* The next catalog call resolveRoute awaits, given what it has so far.
RouteNextCall(path, data) ==
    LET kind == RouteKind(path)
    IN  IF kind = "home" /\ data.collections = None
        THEN Some([kind |-> "collections",
                   options |-> [NoOptions EXCEPT !.limit = Some(3)]])
        ELSE IF kind = "home" /\ data.products = None
        THEN Some([kind |-> "products",
                   options |-> [NoOptions EXCEPT !.featured = Some(TRUE), !.limit = Some(8)]])
        ELSE IF kind = "product" /\ data.products = None
        THEN Some([kind |-> "products",
                   options |-> [NoOptions EXCEPT !.handle = Some(path[2]), !.limit = Some(1)]])
        ELSE IF kind = "collection" /\ data.collections = None
        THEN Some([kind |-> "collections",
                   options |-> [NoOptions EXCEPT !.handle = Some(path[2]), !.limit = Some(1)]])
        ELSE IF kind = "collection" /\ data.products = None
        THEN Some([kind |-> "products",
                   options |-> [NoOptions EXCEPT
                                   !.collection_id = Some(data.collections[1][1].id)]])
        ELSE None

\* throw new Error(message): not an AppError, so it has no statusCode and
\* no isOperational of its own (0 and FALSE stand for undefined)
Failure(message) ==
    [isAppError |-> FALSE, message |-> message, statusCode |-> 0, isOperational |-> FALSE]

\* new AppError(message, statusCode = 500, isOperational = true)
AppError(message, statusCode, isOperational) ==
    [isAppError |-> TRUE, message |-> message, statusCode |-> statusCode,
     isOperational |-> isOperational]

\* if (!product) throw new Error('Product not found'), and the like
RouteThrows(path, data) ==
    LET kind == RouteKind(path)
    IN  IF kind = "product" /\ data.products # None /\ Len(data.products[1]) = 0
        THEN Some(Failure("Product not found"))
        ELSE IF kind = "collection" /\ data.collections # None
                /\ Len(data.collections[1]) = 0
        THEN Some(Failure("Collection not found"))
        ELSE IF kind = "none" THEN Some(Failure("Page not found"))
        ELSE None

\* return { type, template, data }
RouteData(path, data) ==
    LET kind == RouteKind(path)
    IN  [ type |-> kind,
          template |-> IF kind = "home" THEN "index" ELSE kind,
          handle |-> IF kind = "home" THEN "" ELSE path[2],
          data |-> data ]

\* renderPage: the template of the route, wrapped in the layout if the
\* theme has one; a theme without the template raises.
renderPage(theme, routeData, fails) ==
    IF routeData.template \notin DOMAIN theme.templates
    THEN [ok |-> FALSE, error |-> Failure("Template not found"), html |-> << >>]
    ELSE IF fails
    THEN [ok |-> FALSE, error |-> Failure("render"), html |-> << >>]
    ELSE [ok |-> TRUE, error |-> Failure(""),
          html |-> (IF "layout" \in DOMAIN theme.templates THEN << "layout" >> ELSE << >>)
                   \o << routeData.template, routeData.handle >>]

\* A handler that answers every error with its own message
errorHandlerExposeMessage(err) ==
    [ status |-> IF err.isAppError THEN err.statusCode ELSE 500,
      body |-> << err.message >> ]

\* errorHandler (src/src/middleware/error-handler.ts):
\*   statusCode = err instanceof AppError ? err.statusCode : 500
\*   message = err.message || 'Internal Server Error'
\*   isOperational = err instanceof AppError ? err.isOperational : false
\*   error: isOperational ? message : 'Internal Server Error'
errorHandler(err) ==
    [ status |-> IF err.isAppError THEN err.statusCode ELSE 500,
      body |-> << IF err.isAppError /\ err.isOperational /\ err.message # ""
                  THEN err.message
                  ELSE "Internal Server Error" >> ]

\* process.env.NODE_ENV; "unset" is the variable not being set
NodeEnvs == { "development", "production", "unset" }

\* err.stack: the text begins with the error's message
ErrorStack(err) == << "stack", err.message >>

\* const response = { error, ...(NODE_ENV === 'development' && { stack }) };
\* res.status(statusCode).json(response)
ErrorJson(err, env) ==
    [ status |-> errorHandler(err).status,
      error |-> errorHandler(err).body[1],
      stack |-> IF env = "development" THEN Some(ErrorStack(err)) ELSE None ]

ErrorMessages == { "", "connect ECONNREFUSED 10.0.0.5:5432", "Cart is empty" }
ErrorStatusCodes == { 400, 500, 503 }

\* The errors a route can pass to next(): plain errors and AppErrors
Errors ==
    { Failure(m) : m \in ErrorMessages }
    \cup { AppError(m, sc, op) : m \in ErrorMessages, sc \in ErrorStatusCodes,
                                 op \in BOOLEAN }

IdleErrCall ==
    [ pc |-> "idle", err |-> Failure(""), headersSent |-> FALSE, env |-> "unset",
      response |-> None, nexted |-> FALSE ]

IdleReq ==
    [ pc |-> "idle", host |-> "h1", path |-> << >>, tenant |-> None, theme |-> None,
      data |-> NoData, route |-> None, thrown |-> None, response |-> None,
      responses |-> 0, stages |-> << >> ]

\* res.status(..).send(..) / res.send(html) / next(error)
Respond(r, status, body) ==
    [r EXCEPT !.pc = "responded", !.response = Some([status |-> status, body |-> body]),
              !.responses = @ + 1]

Fail(r, err) ==
    [Respond(r, errorHandler(err).status, errorHandler(err).body) EXCEPT
        !.thrown = Some(err)]

\* const tenant = await getTenantFromHost(host);
\* if (!tenant) return res.status(404).send('Store not found')
AfterTenant(r, call) ==
    LET done == [r EXCEPT !.stages = Append(@, "tenant")]
    IN  IF call.outcome = "error" THEN Fail(done, Failure(call.error))
        ELSE IF call.result = None THEN Respond(done, 404, << "Store not found" >>)
        ELSE [done EXCEPT !.pc = "theme", !.tenant = call.result]

\* const theme = await getThemeForTenant(tenant.tenant_id);
\* if (!theme) return res.status(500).send('Theme not configured')
AfterThemeNoCheck(r, call) ==
    LET done == [r EXCEPT !.stages = Append(@, "theme")]
    IN  IF call.outcome = "error" THEN Fail(done, Failure(call.failedAt))
        ELSE [done EXCEPT !.pc = "route", !.theme = call.result]

AfterTheme(r, call) ==
    LET done == [r EXCEPT !.stages = Append(@, "theme")]
    IN  IF call.outcome = "error" THEN Fail(done, Failure(call.failedAt))
        ELSE IF call.result = None THEN Respond(done, 500, << "Theme not configured" >>)
        ELSE [done EXCEPT !.pc = "route", !.theme = call.result]

\* resolveRoute goes on after a catalog call, or after none: it throws,
\* awaits the next call, or returns the route data.
AfterRoute(r, data) ==
    LET thrown == RouteThrows(r.path, data)
        got == [r EXCEPT !.data = data]
        done == [got EXCEPT !.stages = Append(@, "route")]
    IN  IF thrown # None THEN Fail(done, thrown[1])
        ELSE IF RouteNextCall(r.path, data) # None THEN got
        ELSE [done EXCEPT !.pc = "render", !.route = Some(RouteData(r.path, data))]

\* ------------------------------------------------------------------------
\* Theme loader: the process-local NodeCache (stdTTL, no key prefix)
\* ------------------------------------------------------------------------
MemGet(store, key, t) ==
    IF key \in Live(store, t) THEN Some(store[key].val) ELSE None

MemSet(store, key, val, t) ==
    [ k \in DOMAIN store \cup { key } |->
        IF k = key THEN [val |-> val, exp |-> t + themesCacheTTL] ELSE store[k] ]

MemDel(store, key) == [ k \in DOMAIN store \ { key } |-> store[k] ]

\* ------------------------------------------------------------------------
\* Theme loader: storage
\* ------------------------------------------------------------------------
ThemeCacheKey(tenantId) == << "theme:", tenantId >>

\* themes/{tenant_id}/{theme_version}/
ThemeS3Key(t, v) == << "themes/", t, "/", v >>

ThemeRowOf(t, v) == [id |-> t, version |-> v, s3_key |-> ThemeS3Key(t, v)]

\* The template names a theme may carry, and the files a publish uploads.
ThemeTemplateNames ==
    {"index", "product", "collection", "page", "cart", "search", "layout"}

FullBundle == [n \in ThemeTemplateNames |-> "liquid"]

SparseBundle == [n \in {"index", "cart", "layout"} |-> IF n = "cart" THEN "" ELSE "liquid"]

Bundles == { FullBundle, SparseBundle }

\* Key: `${s3Key}/templates/${templateName}.liquid`
TemplateObjectKey(s3Key, templateName) ==
    s3Key \o << "/templates/", templateName, ".liquid" >>

EmptyObjects == [k \in {} |-> ""]

Upload(objects, s3Key, bundle) ==
    LET new == { TemplateObjectKey(s3Key, n) : n \in DOMAIN bundle }
    IN  [ k \in DOMAIN objects \cup new |->
            IF k \in new
            THEN bundle[CHOOSE n \in DOMAIN bundle : TemplateObjectKey(s3Key, n) = k]
            ELSE objects[k] ]

\* s3.send(new GetObjectCommand(...)) and response.Body.transformToString():
\* the body, a NoSuchKey error, or another error of the storage service.
GetObject(objects, key, failing) ==
    IF failing THEN [kind |-> "ServiceError", body |-> ""]
    ELSE IF key \in DOMAIN objects THEN [kind |-> "ok", body |-> objects[key]]
    ELSE [kind |-> "NoSuchKey", body |-> ""]

templateFiles == << "index", "product", "collection", "page", "cart", "search" >>

\* The loop of fetchThemeTemplatesFromS3: a template is added when its body
\* is non-empty; every error of s3.send is caught (logged unless NoSuchKey).
RECURSIVE FetchTemplates(_, _, _, _, _)
FetchTemplates(objects, s3Key, errs, i, templates) ==
    IF i > Len(templateFiles) THEN templates
    ELSE LET name == templateFiles[i]
             got == GetObject(objects, TemplateObjectKey(s3Key, name), name \in errs)
         IN  FetchTemplates(objects, s3Key, errs, i + 1,
                IF got.kind = "ok" /\ got.body # ""
                THEN [n \in DOMAIN templates \cup {name} |->
                        IF n = name THEN got.body ELSE templates[n]]
                ELSE templates)

fetchThemeTemplatesFromS3(objects, s3Key, errs) ==
    FetchTemplates(objects, s3Key, errs, 1, [n \in {} |-> ""])

\* return { ...themeData, templates }; loadedAt and dropped are history:
\* when the bundle was read from storage, and the templates left out
\* because of an error other than NoSuchKey.
LoadedTheme(row, objects, errs, t) ==
    [ id |-> row.id, version |-> row.version, s3_key |-> row.s3_key,
      templates |-> fetchThemeTemplatesFromS3(objects, row.s3_key, errs),
      loadedAt |-> t,
      dropped |-> { n \in errs : \E i \in 1..Len(templateFiles) : templateFiles[i] = n } ]

\* The storage errors the model injects while templates are fetched.
S3ErrorSets == { {}, {"product"} }

IdleThemeCall ==
    [ pc |-> "idle", tenant |-> "t1", outcome |-> "none", result |-> None,
      via |-> "none", failedAt |-> "none", row |-> None, touchedStorage |-> FALSE,
      fresh |-> FALSE, at |-> 0, memAfter |-> None,
      redisAfter |-> None, invalidated |-> FALSE ]

IdleInvTheme ==
    [ pc |-> "idle", proc |-> "p1", tenant |-> "t1", raced |-> FALSE ]

ThemeInFlight(p) == themeCall[p].pc \notin {"idle", "done"}

\* ------------------------------------------------------------------------
\* Health probes (src/src/routes/health.ts)
\* ------------------------------------------------------------------------
\* What a dependency does when the probe calls it: it answers as it should,
\* it raises (connection refused, timeout), or it answers something else
\* (a query result without the one row, a reply other than 'PONG').
DependencyStates == { "up", "down", "odd" }

HealthEndpoints == { "live", "ready", "startup" }

\* await pool.query('SELECT 1'): result.rowCount, or the call raises
SelectOne(db) ==
    IF db = "down" THEN [raised |-> TRUE, rowCount |-> 0]
    ELSE [raised |-> FALSE, rowCount |-> IF db = "up" THEN 1 ELSE 0]

\* await redis.ping(): the reply, or the call raises
Ping(cache) ==
    IF cache = "down" THEN [raised |-> TRUE, pong |-> ""]
    ELSE [raised |-> FALSE, pong |-> IF cache = "up" THEN "PONG" ELSE "LOADING"]

IdleHealth ==
    [ pc |-> "idle", endpoint |-> "live", db |-> "up", cache |-> "up",
      checks |-> [database |-> None, redis |-> None], allHealthy |-> TRUE,
      response |-> None ]
\* ------------------------------------------------------------------------
\* Cart routes (src/unnamed/part_002) and the checkout and discount
\* services (src/unnamed/part_004). Amounts are in cents, and prices are
\* whole units, so that a percentage of a subtotal is exact.
\* ------------------------------------------------------------------------
Item(price, quantity) == [price |-> price, quantity |-> quantity]

\* req.body.items: missing, empty, or a list of items
CartItemLists ==
    { None, Some(<< >>), Some(<< Item(2000, 2) >>), Some(<< Item(4000, 1), Item(3000, 1) >>) }

\* items.reduce((sum, item) => sum + item.price * item.quantity, 0)
RECURSIVE SumItems(_, _, _)
SumItems(items, i, sum) ==
    IF i > Len(items) THEN sum
    ELSE SumItems(items, i + 1, sum + items[i].price * items[i].quantity)

Subtotal(items) == SumItems(items, 1, 0)

\* response.data.discount of the discount service
Discount(type, value, minimum) ==
    [code |-> "SAVE", type |-> type, value |-> value, minimum_purchase |-> minimum]

Discounts ==
    { Discount("percentage", 10, None), Discount("percentage", 150, None),
      Discount("fixed", 500, Some(5000)), Discount("fixed", 10000, None),
      Discount("free_shipping", 0, None) }

\* What axios.get(.../api/discounts/validate/{code}) ends with: a discount,
\* a body without one, an error status, or no response at all
DiscountReplies ==
    { [kind |-> "ok", discount |-> Some(d)] : d \in Discounts }
    \cup { [kind |-> k, discount |-> None] :
                k \in { "no_discount", "404", "410", "500", "network", "timeout" } }

DiscountServiceFailures == { "no_discount", "500", "network", "timeout" }

\* validateDiscountCode(tenantId, code, orderTotal) given the service's reply:
\* reading discount.minimum_purchase of a missing discount raises inside the
\* try, so that case ends in the catch as well
validateDiscountCode(reply, orderTotal) ==
    IF reply.kind = "ok"
    THEN IF reply.discount[1].minimum_purchase # None
            /\ orderTotal < reply.discount[1].minimum_purchase[1]
         THEN [valid |-> FALSE, discount |-> None, error |-> "Minimum purchase required"]
         ELSE [valid |-> TRUE, discount |-> reply.discount, error |-> ""]
    ELSE IF reply.kind = "404"
    THEN [valid |-> FALSE, discount |-> None, error |-> "Invalid discount code"]
    ELSE IF reply.kind = "410"
    THEN [valid |-> FALSE, discount |-> None,
          error |-> "Discount code expired or limit reached"]
    ELSE [valid |-> FALSE, discount |-> None, error |-> "Unable to validate discount code"]

\* calculateDiscount(discount, subtotal)
calculateDiscount(discount, subtotal) ==
    IF discount.type = "percentage" THEN (subtotal * discount.value) \div 100
    ELSE IF discount.type = "fixed" THEN Min(discount.value, subtotal)
    ELSE 0

\* What axios.post(.../api/checkout) ends with
CheckoutOutcomes == { "ok", "status", "network", "timeout" }

\* A checkout service whose failure is replaced by a default result
createCheckoutDefault(outcome) ==
    Some([checkout_url |-> "", order_id |-> ""])

\* createCheckout(checkoutData): response.data, or null from the catch
createCheckout(outcome) ==
    IF outcome = "ok"
    THEN Some([checkout_url |-> "https://checkout/o1", order_id |-> "o1"])
    ELSE None

\* req.body of POST /cart/checkout and of POST /cart/validate-discount
CheckoutBodies ==
    { [items |-> i, customer_email |-> e, shipping_address |-> a, discount_code |-> c,
       code |-> None, subtotal |-> None] :
        i \in CartItemLists, e \in { None, Some("a@b.c") },
        a \in { None, Some("street") }, c \in { None, Some(""), Some("SAVE") } }

ValidateBodies ==
    { [items |-> None, customer_email |-> None, shipping_address |-> None,
       discount_code |-> None, code |-> c, subtotal |-> st] :
        c \in { None, Some("SAVE") }, st \in { None, Some(0), Some(4000) } }

\* A value of the body that a JavaScript condition takes as given: not
\* missing, and not the empty string or the number 0
Given(opt) == opt # None /\ opt[1] # ""
GivenNumber(opt) == opt # None /\ opt[1] # 0

\* res.status(status).json({ error })
ErrorReply(status, error) ==
    [status |-> status, success |-> FALSE, valid |-> FALSE, error |-> error,
     order |-> None, subtotal |-> 0, discount |-> 0, total |-> 0]

IdleCheckout ==
    [ pc |-> "idle", route |-> "checkout", host |-> "h1",
      body |-> [items |-> None, customer_email |-> None, shipping_address |-> None,
                discount_code |-> None, code |-> None, subtotal |-> None],
      tenant |-> None, subtotal |-> 0, validation |-> None, discountAmount |-> 0,
      discountService |-> "none", checkoutService |-> "none", response |-> None ]

CheckoutAnswer(c, reply) == [c EXCEPT !.pc = "done", !.response = Some(reply)]

\* POST /cart/checkout and POST /cart/validate-discount from the tenant
\* lookup up to their next await: the 404, the required fields, the subtotal
AfterCheckoutTenant(c, call) ==
    IF call.outcome = "error"
    THEN CheckoutAnswer(c, ErrorReply(500, "Internal server error"))
    ELSE IF call.result = None
    THEN CheckoutAnswer(c, ErrorReply(404, "Store not found"))
    ELSE LET got == [c EXCEPT !.tenant = call.result]
         IN  IF c.route = "checkout"
             THEN IF c.body.items = None \/ Len(c.body.items[1]) = 0
                  THEN CheckoutAnswer(got, ErrorReply(400, "Cart is empty"))
                  ELSE IF ~Given(c.body.customer_email)
                  THEN CheckoutAnswer(got, ErrorReply(400, "Customer email is required"))
                  ELSE IF ~Given(c.body.shipping_address)
                  THEN CheckoutAnswer(got, ErrorReply(400, "Shipping address is required"))
                  ELSE [got EXCEPT !.subtotal = Subtotal(c.body.items[1]),
                                   !.pc = IF Given(c.body.discount_code) THEN "discount"
                                          ELSE "create"]
             ELSE IF ~Given(c.body.code)
                  THEN CheckoutAnswer(got, ErrorReply(400, "Discount code is required"))
                  ELSE IF ~GivenNumber(c.body.subtotal) \/ c.body.subtotal[1] <= 0
                  THEN CheckoutAnswer(got, ErrorReply(400, "Invalid subtotal"))
                  ELSE [got EXCEPT !.subtotal = c.body.subtotal[1], !.pc = "discount"]

\* const validation = await validateDiscountCode(...), and what each route
\* does with it
AfterDiscount(c, reply) ==
    LET validation == validateDiscountCode(reply, c.subtotal)
        got == [c EXCEPT !.validation = Some(validation), !.discountService = reply.kind]
        amount == calculateDiscount(validation.discount[1], c.subtotal)
    IN  IF c.route = "checkout"
        THEN IF validation.valid /\ validation.discount # None
             THEN [got EXCEPT !.discountAmount = amount, !.pc = "create"]
             ELSE CheckoutAnswer(got, ErrorReply(400,
                        IF validation.error # "" THEN validation.error
                        ELSE "Invalid discount code"))
        ELSE IF ~validation.valid
             THEN CheckoutAnswer(got, ErrorReply(400, validation.error))
             ELSE CheckoutAnswer([got EXCEPT !.discountAmount = amount],
                     [ErrorReply(200, "") EXCEPT !.valid = TRUE, !.subtotal = c.subtotal,
                                                 !.discount = amount,
                                                 !.total = c.subtotal - amount])

\* const result = await createCheckout(checkoutData);
\* if (!result) return res.status(500)...; res.json({ success: true, ... })
AfterCreate(c, outcome) ==
    LET result == createCheckout(outcome)
        got == [c EXCEPT !.checkoutService = outcome]
    IN  IF result = None
        THEN CheckoutAnswer(got, ErrorReply(500, "Failed to create checkout"))
        ELSE CheckoutAnswer(got,
                [ErrorReply(200, "") EXCEPT !.success = TRUE, !.order = result,
                                            !.subtotal = c.subtotal,
                                            !.discount = c.discountAmount,
                                            !.total = c.subtotal - c.discountAmount])
\* ------------------------------------------------------------------------
\* The handleize filter (src/src/services/renderer-service.ts). A string is
\* the sequence of its characters.
\* ------------------------------------------------------------------------
UpperLetters ==
    << "A", "B", "C", "D", "E", "F", "G", "H", "I", "J", "K", "L", "M", "N", "O",
       "P", "Q", "R", "S", "T", "U", "V", "W", "X", "Y", "Z", "É" >>

LowerLetters ==
    << "a", "b", "c", "d", "e", "f", "g", "h", "i", "j", "k", "l", "m", "n", "o",
       "p", "q", "r", "s", "t", "u", "v", "w", "x", "y", "z", "é" >>

Digits == { "0", "1", "2", "3", "4", "5", "6", "7", "8", "9" }

\* [a-z0-9]
IsAlnum(c) == c \in Digits \/ \E i \in 1..26 : LowerLetters[i] = c

\* String.prototype.toLowerCase, character by character
LowerChar(c) ==
    IF \E i \in DOMAIN UpperLetters : UpperLetters[i] = c
    THEN LowerLetters[CHOOSE i \in DOMAIN UpperLetters : UpperLetters[i] = c]
    ELSE c

ToLowerCase(str) == [i \in DOMAIN str |-> LowerChar(str[i])]

\* .replace(/[^a-z0-9]/g, '-'): every other character becomes a hyphen
RECURSIVE ReplaceEach(_)
ReplaceEach(str) ==
    IF Len(str) = 0 THEN << >>
    ELSE << IF IsAlnum(Head(str)) THEN Head(str) ELSE "-" >> \o ReplaceEach(Tail(str))

\* .replace(/[^a-z0-9]+/g, '-'): every maximal run of other characters
\* becomes one hyphen
RECURSIVE ReplaceRuns(_)
ReplaceRuns(str) ==
    IF Len(str) = 0 THEN << >>
    ELSE IF IsAlnum(Head(str)) THEN << Head(str) >> \o ReplaceRuns(Tail(str))
    ELSE IF Len(str) > 1 /\ ~IsAlnum(str[2]) THEN ReplaceRuns(Tail(str))
    ELSE << "-" >> \o ReplaceRuns(Tail(str))

\* .replace(/^-|-$/g, ''): a hyphen at the start and a hyphen at the end
\* are removed, one each
TrimHyphens(str) ==
    LET first == IF Len(str) > 0 /\ str[1] = "-" THEN 2 ELSE 1
        last == IF Len(str) >= first /\ str[Len(str)] = "-" THEN Len(str) - 1
                ELSE Len(str)
    IN  SubSeq(str, first, last)

\* liquid.registerFilter('handleize', ...)
handleize(str) == TrimHyphens(ReplaceRuns(ToLowerCase(str)))

HandleAlphabet == { "a", "B", "7", "-", " ", "!", "É" }

\* 'My Cool Product!!'
SampleTitle ==
    << "M", "y", " ", "C", "o", "o", "l", " ", "P", "r", "o", "d", "u", "c", "t", "!", "!" >>

StringsOfLen(n) == [1..n -> HandleAlphabet]

HandleInputs == UNION { StringsOfLen(n) : n \in 0..MaxHandleLen } \cup { SampleTitle }

IdleHandleCall == [ pc |-> "idle", input |-> << >>, output |-> << >>, again |-> << >> ]
\* ------------------------------------------------------------------------
\* Rate limiter (src/src/middleware/rate-limiter.ts)
\* ------------------------------------------------------------------------
\* req.ip of the clients, and the requests that can be inside the
\* middleware at the same time
Clients == { "ip1", "ip2" }
LimiterRequests == { "r1", "r2" }

\* const key = `rate_limit:${ip}`
RateLimitKey(ip) == << "rate_limit:", ip >>

\* A counter is stored as its decimal text; parseInt(current, 10) reads it
Decimal(n) == [decimal |-> n]
parseInt(text) == text.decimal

\* The expiry of a key that has none
NoExpiry == 1000000000

\* INCR: a missing key is created as 1 without an expiry; an existing one
\* keeps its expiry. passed is history: the requests passed on to the next
\* handler since the key was created.
RedisIncr(store, key, t) ==
    [ k \in DOMAIN store \cup { Prefixed(key) } |->
        IF k # Prefixed(key) THEN store[k]
        ELSE IF k \in Live(store, t)
        THEN [store[k] EXCEPT !.val = Decimal(parseInt(@) + 1)]
        ELSE [val |-> Decimal(1), exp |-> NoExpiry, passed |-> 0] ]

\* PEXPIRE key milliseconds
RedisPExpire(store, key, ms, t) ==
    [ k \in DOMAIN store |->
        IF k = Prefixed(key) /\ k \in Live(store, t)
        THEN [store[k] EXCEPT !.exp = t + ms \div 1000]
        ELSE store[k] ]

\* TTL key: seconds left, -1 for a key without expiry, -2 for no key
RedisTtl(store, key, t) ==
    IF Prefixed(key) \notin Live(store, t) THEN -2
    ELSE IF store[Prefixed(key)].exp = NoExpiry THEN -1
    ELSE store[Prefixed(key)].exp - t

\* history: the request went on to the next handler by the normal path
NotePassed(store, key) ==
    [ k \in DOMAIN store |->
        IF k = Prefixed(key) THEN [store[k] EXCEPT !.passed = @ + 1] ELSE store[k] ]

IdleLimiter ==
    [ pc |-> "idle", ip |-> "ip1", count |-> 0, newCount |-> 0, atLimit |-> FALSE,
      incremented |-> FALSE, failedAt |-> "none", outcome |-> "none", retryAfter |-> 0 ]

\* catch (error) { logger.error(...); next() }
LimiterCatch(r, at) ==
    [r EXCEPT !.pc = "done", !.failedAt = at, !.outcome = "next"]
\* ------------------------------------------------------------------------
\* Cart store (src/src/lib/cart-store.ts). Prices and totals are in cents;
\* a quantity is a JavaScript number and is counted in tenths, so that a
\* quantity that is not a whole number is a possible argument.
\* ------------------------------------------------------------------------
\* The quantity 1
One == 10

\* The items a product page can add: Omit<CartItem, 'quantity'>
CartVariants ==
    { [variantId |-> 1, price |-> 1000], [variantId |-> 2, price |-> 3000] }

VariantIds == { item.variantId : item \in CartVariants }

\* The quantities given to updateQuantity: -1, 0, 0.5, 1, 3
QuantityArguments == { -One, 0, One \div 2, One, 3 * One }

\* items.reduce((sum, item) => sum + item.price * item.quantity, 0)
RECURSIVE CartSubtotal(_, _, _)
CartSubtotal(items, i, sum) ==
    IF i > Len(items) THEN sum
    ELSE CartSubtotal(items, i + 1, sum + (items[i].price * items[i].quantity) \div One)

\* calculateTotals: tax = subtotal * 0.21; shipping = subtotal > 50 ? 0 : 5.95
calculateTotals(c) ==
    LET subtotal == CartSubtotal(c.items, 1, 0)
        tax == (subtotal * 21) \div 100
        shipping == IF subtotal > 5000 THEN 0 ELSE 595
    IN  [c EXCEPT !.subtotal = subtotal, !.tax = tax, !.shipping = shipping,
                  !.total = subtotal + tax + shipping]

\* items.find((i) => i.variantId === item.variantId)
InCart(items, variantId) == \E i \in DOMAIN items : items[i].variantId = variantId

\* addItem(item)
addItem(c, item) ==
    calculateTotals([c EXCEPT !.items =
        IF InCart(c.items, item.variantId)
        THEN [i \in DOMAIN c.items |->
                IF c.items[i].variantId = item.variantId
                THEN [c.items[i] EXCEPT !.quantity = @ + One]
                ELSE c.items[i]]
        ELSE Append(c.items, [variantId |-> item.variantId, price |-> item.price,
                              quantity |-> One])])

\* removeItem(variantId)
removeItem(c, variantId) ==
    calculateTotals([c EXCEPT !.items =
        SelectSeq(c.items, LAMBDA item : item.variantId # variantId)])

\* updateQuantity(variantId, quantity)
updateQuantity(c, variantId, quantity) ==
    IF quantity <= 0 THEN removeItem(c, variantId)
    ELSE calculateTotals([c EXCEPT !.items =
            [i \in DOMAIN c.items |->
                IF c.items[i].variantId = variantId
                THEN [c.items[i] EXCEPT !.quantity = quantity]
                ELSE c.items[i]]])

\* clearCart()
clearCart(c) ==
    [c EXCEPT !.items = << >>, !.total = 0, !.subtotal = 0, !.tax = 0, !.shipping = 0]

\* The store as created; last is history: the last operation, its
\* arguments and the items before it
NoOperation == [op |-> "none", variantId |-> 0, quantity |-> 0, before |-> << >>]

EmptyCart ==
    [ items |-> << >>, total |-> 0, subtotal |-> 0, tax |-> 0, shipping |-> 0,
      last |-> NoOperation ]

Init ==
    /\ now = 0
    /\ redis = EmptyStore
    /\ domainMapping = [h \in Hosts |->
            IF h = "h1" THEN Some([tenant_id |-> "t1", verified |-> TRUE]) ELSE None]
    /\ tenantStatus = [t \in TenantIds |-> "active"]
    /\ registryChanges = 0
    /\ tenantCall = [c \in AllTenantCalls |-> IdleTenantCall]
    /\ invTenant = IdleInvTenant
    /\ tenantClean = [h \in Hosts |-> FALSE]
    /\ dataCall = IdleDataCall
    /\ invData = IdleInvData
    /\ dataClean = [t \in TenantIds |-> FALSE]
    /\ memoryCache = [p \in Procs |-> EmptyStore]
    /\ themeRow = [t \in TenantIds |->
            IF t = "t1" THEN Some(ThemeRowOf("t1", "v1")) ELSE None]
    /\ s3 = Upload(EmptyObjects, ThemeS3Key("t1", "v1"), FullBundle)
    /\ publishes = 0
    /\ themeCall = [p \in Procs |-> IdleThemeCall]
    /\ invTheme = IdleInvTheme
    /\ themeFreshUntil = [p \in Procs |-> [t \in TenantIds |-> 0]]
    /\ themeClean = [t \in TenantIds |-> FALSE]
    /\ svcCall = IdleSvcCall
    /\ purgeCall = IdlePurgeCall
    /\ cdnPurged = {}
    /\ purgeRequests = 0
    /\ preview = IdlePreview
    /\ shopProducts = [t \in TenantIds |-> << >>]
    /\ req = IdleReq
    /\ errCall = IdleErrCall
    /\ health = IdleHealth
    /\ checkout = IdleCheckout
    /\ handleCall = IdleHandleCall
    /\ mappingHistory = [h \in Hosts |-> NoMappingChange]
    /\ limiter = [r \in LimiterRequests |-> IdleLimiter]
    /\ cart = EmptyCart

\* ------------------------------------------------------------------------
\* The clock
\* ------------------------------------------------------------------------
\* A request lasts far less than one step of the clock: the clock advances
\* while no request is between two of its awaits.
NoRequestInFlight ==
    /\ \A c \in AllTenantCalls : tenantCall[c].pc \in {"idle", "done"}
    /\ invTenant.pc \in {"idle", "failed", "returned"}
    /\ dataCall.pc \in {"idle", "done"}
    /\ invData.pc \in {"idle", "failed", "returned"}
    /\ svcCall.pc = "idle"
    /\ purgeCall.pc \in {"idle", "done"}
    /\ preview.pc \in {"idle", "done"}
    /\ req.pc \in {"idle", "responded"}
    /\ \A r \in LimiterRequests : limiter[r].pc \in {"idle", "done"}
    /\ \A p \in Procs : ~ThemeInFlight(p)
    /\ invTheme.pc \in {"idle", "failed", "returned"}

Tick(limit) ==
    /\ now + TickSeconds <= limit
    /\ NoRequestInFlight
    /\ now' = now + TickSeconds
    /\ redis' = Expire(redis, now + TickSeconds)
    /\ memoryCache' = [p \in Procs |-> Expire(memoryCache[p], now + TickSeconds)]
    /\ UNCHANGED << edgeVars, tenantVars, dataVars, themeRow, s3, publishes, themeCall,
                    invTheme, themeFreshUntil, themeClean >>

\* ------------------------------------------------------------------------
\* The tenant registry changes (outside the renderer)
\* ------------------------------------------------------------------------
NoteMapping(mapping, status) ==
    [c \in AllTenantCalls |->
        IF tenantCall[c].pc \in {"get", "query", "setex"}
           /\ ActiveVerified(mapping, status, tenantCall[c].host)
        THEN [tenantCall[c] EXCEPT !.everMapped = TRUE]
        ELSE tenantCall[c]]

SetDomainMapping(h, m) ==
    /\ registryChanges < MaxRegistryChanges
    /\ domainMapping[h] # m
    /\ domainMapping' = [domainMapping EXCEPT ![h] = m]
    /\ registryChanges' = registryChanges + 1
    /\ tenantCall' = NoteMapping(domainMapping', tenantStatus)
    /\ mappingHistory' = [mappingHistory EXCEPT ![h] =
            [changed |-> TRUE, invalidated |-> FALSE,
             before |-> QueryTenant(domainMapping, tenantStatus, h)]]
    /\ UNCHANGED << notRace, dataVars, themeVars, now, redis, tenantStatus, invTenant, tenantClean >>

SetTenantStatus(t, s) ==
    /\ registryChanges < MaxRegistryChanges
    /\ tenantStatus[t] # s
    /\ tenantStatus' = [tenantStatus EXCEPT ![t] = s]
    /\ registryChanges' = registryChanges + 1
    /\ tenantCall' = NoteMapping(domainMapping, tenantStatus')
    /\ UNCHANGED << edgeVars, dataVars, themeVars, now, redis, domainMapping, invTenant, tenantClean >>

\* ------------------------------------------------------------------------
\* getTenantFromHost(host), one action per await
\* ------------------------------------------------------------------------
TenantStart(c, h) ==
    /\ tenantCall[c].pc = "idle"
    /\ tenantCall' = [tenantCall EXCEPT ![c] =
            [IdleTenantCall EXCEPT !.pc = "get", !.host = h,
                                   !.everMapped = ActiveVerified(domainMapping, tenantStatus, h),
                                   !.startedSettled = mappingHistory[h].changed
                                                      /\ mappingHistory[h].invalidated,
                                   !.preChange = mappingHistory[h].before]]
    /\ UNCHANGED << edgeVars, dataVars, themeVars, now, redis, domainMapping, tenantStatus, registryChanges,
                    invTenant, tenantClean >>

\* const cached = await redis.get(cacheKey); if (cached) return JSON.parse(cached)
TenantCacheGet(c, fails) ==
    LET call == tenantCall[c]
        cached == RedisGet(redis, TenantCacheKey(call.host), now)
        seen == [call EXCEPT !.readClean = tenantClean[call.host],
                             !.seenEntry =
                    IF << keyPrefix, "tenant:host:", call.host >> \in DOMAIN redis
                    THEN Some(redis[<< keyPrefix, "tenant:host:", call.host >>].val)
                    ELSE None]
    IN  /\ call.pc = "get"
        /\ tenantCall' = [tenantCall EXCEPT ![c] =
              IF fails
              THEN TenantCatch(seen, "cache_read")
              ELSE IF cached # None
              THEN [seen EXCEPT !.pc = "done", !.outcome = "return", !.hit = TRUE,
                                !.result = Some(Parse(cached[1]))]
              ELSE [seen EXCEPT !.pc = "query"]]
        /\ UNCHANGED << edgeVars, dataVars, themeVars, now, redis, domainMapping, tenantStatus, registryChanges,
                        invTenant, tenantClean >>

\* const result = await pool.query(...); if (result.rows.length === 0) return null
TenantQuery(c, fails) ==
    LET call == tenantCall[c]
        rows == QueryTenant(domainMapping, tenantStatus, call.host)
    IN  /\ call.pc = "query"
        /\ tenantCall' = [tenantCall EXCEPT ![c] =
              IF fails
              THEN TenantCatch(call, "registry")
              ELSE IF Len(rows) = 0
              THEN [call EXCEPT !.pc = "done", !.outcome = "return", !.queried = TRUE,
                                !.result = None]
              ELSE [call EXCEPT !.pc = "setex", !.queried = TRUE, !.matched = TRUE,
                                !.result = Some(rows[1])]]
        /\ UNCHANGED << edgeVars, dataVars, themeVars, now, redis, domainMapping, tenantStatus, registryChanges,
                        invTenant, tenantClean >>

\* await redis.setex(cacheKey, 3600, JSON.stringify(tenant)); return tenant
TenantSetex(c, fails) ==
    LET call == tenantCall[c]
        key == TenantCacheKey(call.host)
        after == RedisSetex(redis, key, TenantCacheTTL, Stringify(call.result[1]), now)
    IN  /\ call.pc = "setex"
        /\ IF fails
           THEN /\ tenantCall' = [tenantCall EXCEPT ![c] =
                      TenantCatch(call, "cache_write")]
                /\ UNCHANGED << redis, tenantClean >>
           ELSE /\ redis' = after
                /\ tenantClean' = [tenantClean EXCEPT ![call.host] = FALSE]
                /\ tenantCall' = [tenantCall EXCEPT ![c] =
                      [call EXCEPT !.pc = "done", !.outcome = "return",
                                   !.wroteTTL = TenantCacheTTL, !.wroteAt = now,
                                   !.stored =
                        IF << keyPrefix, "tenant:host:", call.host >> \in DOMAIN after
                        THEN Some(after[<< keyPrefix, "tenant:host:", call.host >>])
                        ELSE None]]
        /\ UNCHANGED << edgeVars, dataVars, themeVars, now, domainMapping, tenantStatus, registryChanges, invTenant >>

\* The caller has the result; the slot is free for the next request.
TenantReturn(c) ==
    /\ tenantCall[c].pc = "done"
    /\ tenantCall' = [tenantCall EXCEPT ![c] = IdleTenantCall]
    /\ UNCHANGED << edgeVars, dataVars, themeVars, now, redis, domainMapping, tenantStatus, registryChanges,
                    invTenant, tenantClean >>

\* ------------------------------------------------------------------------
\* invalidateTenantCache(host)
\* ------------------------------------------------------------------------
InvalidateTenantKeyOther(host) == << "tenant:", host >>

InvalidateTenantKey(host) == << "tenant:host:", host >>

InvalidateTenantStart(h) ==
    /\ invTenant.pc = "idle"
    /\ invTenant' = [IdleInvTenant EXCEPT !.pc = "del", !.host = h,
                                          !.afterChange = mappingHistory[h].changed]
    /\ UNCHANGED << edgeVars, dataVars, themeVars, now, redis, domainMapping, tenantStatus, registryChanges,
                    tenantCall, tenantClean >>

\* await redis.del(cacheKey)
InvalidateTenantDel(fails) ==
    /\ invTenant.pc = "del"
    /\ invTenant' = [invTenant EXCEPT
                        !.pc = IF fails THEN "failed" ELSE "returned",
                        !.had = << keyPrefix, "tenant:host:", invTenant.host >> \in DOMAIN redis]
    /\ IF fails
       THEN UNCHANGED << redis, tenantClean, mappingHistory >>
       ELSE /\ redis' = RedisDel(redis, { InvalidateTenantKey(invTenant.host) })
            /\ tenantClean' = [tenantClean EXCEPT ![invTenant.host] = TRUE]
            /\ mappingHistory' = NoteInvalidation(mappingHistory, invTenant)
    /\ UNCHANGED << notRace, dataVars, themeVars, now, domainMapping, tenantStatus, registryChanges, tenantCall >>

InvalidateTenantDone ==
    /\ invTenant.pc \in {"failed", "returned"}
    /\ invTenant' = IdleInvTenant
    /\ UNCHANGED << edgeVars, dataVars, themeVars, now, redis, domainMapping, tenantStatus, registryChanges,
                    tenantCall, tenantClean >>

MappingValues ==
    { None } \cup { Some([tenant_id |-> t, verified |-> v]) : t \in TenantIds, v \in BOOLEAN }

NextTenant ==
    \/ Tick(MaxTenantTime)
    \/ \E h \in Hosts, m \in MappingValues : SetDomainMapping(h, m)
    \/ \E t \in TenantIds, s \in {"active", "inactive"} : SetTenantStatus(t, s)
    \/ \E c \in TenantCalls, h \in Hosts : TenantStart(c, h)
    \/ \E c \in TenantCalls, f \in BOOLEAN : TenantCacheGet(c, f)
    \/ \E c \in TenantCalls, f \in BOOLEAN : TenantQuery(c, f)
    \/ \E c \in TenantCalls, f \in BOOLEAN : TenantSetex(c, f)
    \/ \E c \in TenantCalls : TenantReturn(c)
    \/ \E h \in Hosts : InvalidateTenantStart(h)
    \/ \E f \in BOOLEAN : InvalidateTenantDel(f)
    \/ InvalidateTenantDone

SpecTenant == Init /\ [][NextTenant]_vars

\* ------------------------------------------------------------------------
\* Tenant resolver: properties
\* ------------------------------------------------------------------------
FullTenantKey(h) == << "renderer:", "tenant:host:", h >>

TenantDone(c) == tenantCall[c].pc = "done"

\* C3 as stated: for a host without an active, verified mapping the call
\* returns null and never raises, whatever the cache and the registry hold.
C3_UnmappedHostAlwaysNull ==
    \A c \in TenantCalls :
        (TenantDone(c) /\ ~tenantCall[c].everMapped)
            => (tenantCall[c].outcome = "return" /\ tenantCall[c].result = None)

\* C3 amended: for a host without an active, verified mapping and without a
\* cached entry, the call returns null when the cache read and the registry
\* query succeed, and raises only the error of the step that failed.
C3_UnmappedUncachedHostNull ==
    \A c \in TenantCalls :
        (TenantDone(c) /\ ~tenantCall[c].everMapped /\ tenantCall[c].seenEntry = None)
            => IF tenantCall[c].failedAt = "none"
               THEN tenantCall[c].outcome = "return" /\ tenantCall[c].result = None
               ELSE /\ tenantCall[c].outcome = "error"
                    /\ tenantCall[c].failedAt \in {"cache_read", "registry"}

C3_Witness ==
    \E c \in TenantCalls :
        /\ TenantDone(c) /\ ~tenantCall[c].everMapped /\ tenantCall[c].seenEntry = None
        /\ tenantCall[c].queried /\ tenantCall[c].outcome = "return"
        /\ tenantCall[c].result = None
        /\ domainMapping[tenantCall[c].host] # None

\* C4: a failure of the cache read, the registry query or the cache write
\* makes the call fail with that error; it returns neither null nor a tenant.
C4_FailurePropagates ==
    \A c \in TenantCalls :
        (TenantDone(c) /\ tenantCall[c].failedAt # "none")
            => /\ tenantCall[c].outcome = "error"
               /\ tenantCall[c].error = tenantCall[c].failedAt
               /\ tenantCall[c].result = None

C4_Witness ==
    \E c \in TenantCalls :
        /\ TenantDone(c) /\ tenantCall[c].failedAt = "cache_write"
        /\ tenantCall[c].matched /\ tenantCall[c].outcome = "error"

\* C5: the entry tenant:host:{host} is written only after a registry match,
\* with an expiry of one hour, before the call returns; a call that reads a
\* present entry returns the cached tenant without querying the registry;
\* a not-found result writes nothing.
C5_FillAfterMatchOneHour ==
    \A c \in TenantCalls :
        LET call == tenantCall[c] IN
        TenantDone(c) =>
            /\ (call.wroteTTL # 0 =>
                    /\ call.queried /\ call.matched /\ call.outcome = "return"
                    /\ call.result # None
                    /\ call.stored # None
                    /\ call.stored[1].val = Stringify(call.result[1])
                    /\ call.stored[1].exp = call.wroteAt + 60 * 60)
            /\ ((call.outcome = "return" /\ call.result # None /\ ~call.hit)
                    => call.wroteTTL # 0)
            /\ ((call.seenEntry # None /\ call.failedAt # "cache_read") =>
                    /\ call.hit /\ ~call.queried /\ call.wroteTTL = 0
                    /\ call.outcome = "return"
                    /\ call.result = Some(Parse(call.seenEntry[1])))
            /\ ((call.outcome = "return" /\ call.result = None) =>
                    call.wroteTTL = 0 /\ call.stored = None)

C5_Witness ==
    \E c \in TenantCalls :
        /\ TenantDone(c) /\ tenantCall[c].hit /\ tenantCall[c].seenEntry # None
        /\ now > 0
        /\ FullTenantKey(tenantCall[c].host) \in DOMAIN redis
        /\ redis[FullTenantKey(tenantCall[c].host)].exp = 60 * 60

\* C6: after invalidateTenantCache(host) returns, the cache holds no entry
\* for tenant:host:{host} until a later lookup fills it, a lookup reading the
\* cache in that period queries the registry, and the delete leaves the
\* entries of every other key unchanged.
C6_InvalidatedState ==
    /\ \A h \in Hosts : tenantClean[h] => FullTenantKey(h) \notin DOMAIN redis
    /\ \A c \in TenantCalls :
          (TenantDone(c) /\ tenantCall[c].readClean /\ tenantCall[c].failedAt # "cache_read")
              => (~tenantCall[c].hit /\ (tenantCall[c].queried \/ tenantCall[c].failedAt = "registry"))

C6_InvalidateStep ==
    (invTenant.pc = "del" /\ invTenant'.pc = "returned") =>
        /\ FullTenantKey(invTenant.host) \notin DOMAIN redis'
        /\ DOMAIN redis' \subseteq DOMAIN redis
        /\ \A k \in DOMAIN redis \ { FullTenantKey(invTenant.host) } :
              k \in DOMAIN redis' /\ redis'[k] = redis[k]

C6_InvalidateClearsOnlyHost == [] C6_InvalidatedState /\ [][C6_InvalidateStep]_vars

C6_Witness ==
    /\ invTenant.pc = "returned" /\ invTenant.had /\ invTenant.host = "h1"
    /\ FullTenantKey("h2") \in DOMAIN redis
    /\ tenantClean["h1"]

\* ------------------------------------------------------------------------
\* getProducts(tenantId, options) / getCollections(tenantId, options)
\* ------------------------------------------------------------------------
DataStart(kind, t, o) ==
    /\ dataCall.pc = "idle"
    /\ dataCall' = [IdleDataCall EXCEPT !.pc = "get", !.kind = kind, !.tenant = t,
                                        !.options = o]
    /\ UNCHANGED << edgeVars, themeVars, now, redis, tenantVars, invData, dataClean >>

\* const cached = await redis.get(cacheKey); if (cached) return JSON.parse(cached)
DataCacheGet(fails) ==
    LET cached == RedisGet(redis, DataCacheKey(dataCall), now)
    IN  /\ dataCall.pc = "get"
        /\ dataCall' =
              IF fails
              THEN [dataCall EXCEPT !.pc = "done", !.outcome = "error"]
              ELSE IF cached # None
              THEN [dataCall EXCEPT !.pc = "done", !.outcome = "return", !.hit = TRUE,
                                    !.result = Parse(cached[1]),
                                    !.servedFor = Some(cached[1].cachedFor)]
              ELSE [dataCall EXCEPT !.pc = "query"]
        /\ UNCHANGED << edgeVars, themeVars, now, redis, tenantVars, invData, dataClean >>

\* const result = await pool.query(query, params)
DataQuery(fails) ==
    /\ dataCall.pc = "query"
    /\ dataCall' =
          IF fails
          THEN [dataCall EXCEPT !.pc = "done", !.outcome = "error"]
          ELSE [dataCall EXCEPT !.pc = "setex", !.result =
                    IF dataCall.kind = "products"
                    THEN QueryProducts(dataCall.tenant, dataCall.options)
                    ELSE QueryCollections(dataCall.tenant, dataCall.options)]
    /\ UNCHANGED << edgeVars, themeVars, now, redis, tenantVars, invData, dataClean >>

\* await redis.setex(cacheKey, config.cache.dataCacheTTL, JSON.stringify(rows))
DataSetex(fails) ==
    /\ dataCall.pc = "setex"
    /\ IF fails
       THEN /\ dataCall' = [dataCall EXCEPT !.pc = "done", !.outcome = "error",
                                            !.result = << >>]
            /\ UNCHANGED << redis, dataClean, invData >>
       ELSE /\ redis' = RedisSetex(redis, DataCacheKey(dataCall), dataCacheTTL,
                                   DataEntry(dataCall), now)
            /\ dataClean' = [dataClean EXCEPT ![dataCall.tenant] = FALSE]
            /\ dataCall' = [dataCall EXCEPT !.pc = "done", !.outcome = "return"]
            /\ invData' = IF invData.pc \notin {"idle", "failed", "returned"}
                              /\ invData.tenant = dataCall.tenant
                           THEN [invData EXCEPT !.raced = TRUE]
                           ELSE invData
    /\ UNCHANGED << edgeVars, themeVars, now, tenantVars >>

DataReturn ==
    /\ dataCall.pc = "done"
    /\ dataCall' = IdleDataCall
    /\ UNCHANGED << edgeVars, themeVars, now, redis, tenantVars, invData, dataClean >>

\* ------------------------------------------------------------------------
\* invalidateProductCache(tenantId)
\* ------------------------------------------------------------------------
ProductsPattern(tenantId) == << keyPrefix, "products:", tenantId, ":", "*" >>

CollectionsPattern(tenantId) == << keyPrefix, "collections:", tenantId, ":", "*" >>

\* History: the full names of the tenant's catalog entries in the cache.
TenantDataKeys(store, t) ==
    { k \in DOMAIN store :
        /\ Len(k) >= 4
        /\ k[1] = "renderer:" /\ k[2] \in {"products:", "collections:"}
        /\ k[3] = t /\ k[4] = ":" }

InvalidateDataStart(t) ==
    /\ invData.pc = "idle"
    /\ invData' = [IdleInvData EXCEPT !.pc = "keys", !.tenant = t,
                                      !.had = TenantDataKeys(redis, t) # {}]
    /\ UNCHANGED << edgeVars, themeVars, now, redis, tenantVars, dataCall, dataClean >>

\* const keys = await redis.keys(pattern)
InvalidateDataKeys(fails) ==
    LET keys == RedisKeys(redis, ProductsPattern(invData.tenant), now)
    IN  /\ invData.pc = "keys"
        /\ invData' =
              IF fails THEN [invData EXCEPT !.pc = "failed"]
              ELSE IF Cardinality(keys) > 0
              THEN [invData EXCEPT !.pc = "del", !.keys = keys]
              ELSE [invData EXCEPT !.pc = "collectionKeys"]
        /\ UNCHANGED << edgeVars, themeVars, now, redis, tenantVars, dataCall, dataClean >>

\* await redis.del(...keys)
InvalidateDataDel(fails) ==
    /\ invData.pc = "del"
    /\ IF fails
       THEN /\ invData' = [invData EXCEPT !.pc = "failed"]
            /\ UNCHANGED redis
       ELSE /\ invData' = [invData EXCEPT !.pc = "collectionKeys", !.keys = {}]
            /\ redis' = RedisDel(redis, invData.keys)
    /\ UNCHANGED << edgeVars, themeVars, now, tenantVars, dataCall, dataClean >>

\* const collectionKeys = await redis.keys(collectionPattern)
InvalidateDataCollectionKeys(fails) ==
    LET keys == RedisKeys(redis, CollectionsPattern(invData.tenant), now)
    IN  /\ invData.pc = "collectionKeys"
        /\ IF fails
           THEN invData' = [invData EXCEPT !.pc = "failed"] /\ UNCHANGED dataClean
           ELSE IF Cardinality(keys) > 0
           THEN invData' = [invData EXCEPT !.pc = "collectionDel", !.keys = keys]
                /\ UNCHANGED dataClean
           ELSE /\ invData' = [invData EXCEPT !.pc = "returned"]
                /\ dataClean' = [dataClean EXCEPT ![invData.tenant] = ~invData.raced]
        /\ UNCHANGED << edgeVars, themeVars, now, redis, tenantVars, dataCall >>

\* await redis.del(...collectionKeys)
InvalidateDataCollectionDel(fails) ==
    /\ invData.pc = "collectionDel"
    /\ IF fails
       THEN /\ invData' = [invData EXCEPT !.pc = "failed"]
            /\ UNCHANGED << redis, dataClean >>
       ELSE /\ invData' = [invData EXCEPT !.pc = "returned", !.keys = {}]
            /\ redis' = RedisDel(redis, invData.keys)
            /\ dataClean' = [dataClean EXCEPT ![invData.tenant] = ~invData.raced]
    /\ UNCHANGED << edgeVars, themeVars, now, tenantVars, dataCall >>

InvalidateDataDone ==
    /\ invData.pc \in {"failed", "returned"}
    /\ invData' = IdleInvData
    /\ UNCHANGED << edgeVars, themeVars, now, redis, tenantVars, dataCall, dataClean >>

NextData ==
    \/ Tick(MaxDataTime)
    \/ \E t \in TenantIds, o \in ProductOptions : DataStart("products", t, o)
    \/ \E t \in TenantIds, o \in CollectionOptions : DataStart("collections", t, o)
    \/ \E f \in BOOLEAN : DataCacheGet(f)
    \/ \E f \in BOOLEAN : DataQuery(f)
    \/ \E f \in BOOLEAN : DataSetex(f)
    \/ DataReturn
    \/ \E t \in TenantIds : InvalidateDataStart(t)
    \/ \E f \in BOOLEAN : InvalidateDataKeys(f)
    \/ \E f \in BOOLEAN : InvalidateDataDel(f)
    \/ \E f \in BOOLEAN : InvalidateDataCollectionKeys(f)
    \/ \E f \in BOOLEAN : InvalidateDataCollectionDel(f)
    \/ InvalidateDataDone

SpecData == Init /\ [][NextData]_vars

\* The lookups alone, over the wider set of option objects.
NextCatalog ==
    \/ \E t \in TenantIds, o \in CatalogProductOptions : DataStart("products", t, o)
    \/ \E t \in TenantIds, o \in CatalogCollectionOptions : DataStart("collections", t, o)
    \/ \E f \in BOOLEAN : DataCacheGet(f)
    \/ \E f \in BOOLEAN : DataQuery(f)
    \/ \E f \in BOOLEAN : DataSetex(f)
    \/ DataReturn

SpecCatalog == Init /\ [][NextCatalog]_vars

\* ------------------------------------------------------------------------
\* Catalog data provider: properties
\* ------------------------------------------------------------------------
\* C2: once invalidateProductCache(t) has returned, with no lookup filling
\* the tenant's cache during or after it, the cache holds no entry under the
\* tenant's products:{t}: or collections:{t}: prefix.
C2_InvalidateRemovesTenantKeys ==
    \A t \in TenantIds : dataClean[t] => TenantDataKeys(redis, t) = {}

\* The calls the route resolver can make.
CatalogCalls ==
    { [kind |-> "products", tenant |-> t, options |-> o] :
          t \in TenantIds, o \in CatalogProductOptions \cup ProductOptions }
    \cup { [kind |-> "collections", tenant |-> t, options |-> o] :
          t \in TenantIds, o \in CatalogCollectionOptions \cup CollectionOptions }

\* C11: two calls of getProducts / getCollections whose (tenantId, options)
\* pairs differ use different cache keys, and a call served from the cache is
\* served the entry that a call with its own tenant and options wrote.
C11_DistinctPairsDistinctKeys ==
    /\ dataCall.pc # "idle"
          => \A b \in CatalogCalls :
                << b.tenant, b.options >> # << dataCall.tenant, dataCall.options >>
                    => DataCacheKey(b) # DataCacheKey(dataCall)
    /\ (dataCall.pc = "done" /\ dataCall.hit)
          => dataCall.servedFor = Some(CalledWith(dataCall))

\* A call is served from the cache while the cache also holds the entry of
\* the other tenant for the same options and an entry of the same tenant for
\* options that differ in one field.
C11_Witness ==
    /\ dataCall.pc = "done" /\ dataCall.hit /\ dataCall.kind = "products"
    /\ dataCall.tenant = "t2"
    /\ dataCall.options = [NoOptions EXCEPT !.handle = Some("shirt")]
    /\ dataCall.result = << >>
    /\ RedisGet(redis, ProductsCacheKey("t1", dataCall.options), now) # None
    /\ RedisGet(redis, ProductsCacheKey("t2",
              [NoOptions EXCEPT !.handle = Some("shirt"), !.limit = Some(1)]), now) # None

\* A product satisfies every option that is set.
FilterSatisfied(p, options) ==
    /\ (options.handle # None => p.handle = options.handle[1])
    /\ (options.collection_id # None => options.collection_id[1] \in p.collections)
    /\ (options.featured # None => p.featured = options.featured[1])

\* C12: every product getProducts returns, from the store or from the cache,
\* satisfies every option that is set (handle, collection_id, featured), and
\* the result is the slice of at most limit matching products from offset.
C12_ResultSatisfiesFilter ==
    (dataCall.pc = "done" /\ dataCall.kind = "products" /\ dataCall.outcome = "return")
        => /\ \A i \in 1..Len(dataCall.result) :
                  FilterSatisfied(dataCall.result[i], dataCall.options)
           /\ Len(dataCall.result) <=
                  (IF dataCall.options.limit # None THEN dataCall.options.limit[1]
                   ELSE DefaultLimit)

notSvc == << tenantVars, dataVars, themeVars, purgeVars, blockVars, reqVars, lateVars >>
notPurge == << tenantVars, dataVars, themeVars, svcVars, blockVars, reqVars, lateVars >>
notBlock == << tenantVars, dataVars, themeVars, svcVars, purgeVars, reqVars, lateVars >>
notReq == << svcVars, purgeVars, blockVars, lateVars >>

\* ------------------------------------------------------------------------
\* getProductsFromService(tenantId, options), one action per await
\* ------------------------------------------------------------------------
SvcStart(t, o) ==
    /\ svcCall.pc = "idle"
    /\ svcCall' = [IdleSvcCall EXCEPT !.pc = "get", !.tenant = t, !.options = o,
                       !.before = RedisGet(redis, ServiceCacheKey(t, o), now)]
    /\ UNCHANGED << notSvc, now, redis >>

\* const cached = await redis.get(cacheKey); if (cached) return JSON.parse(cached)
SvcCacheGet(fails) ==
    LET cached == RedisGet(redis, ServiceCacheKey(svcCall.tenant, svcCall.options), now)
    IN  /\ svcCall.pc = "get"
        /\ svcCall' =
              IF fails THEN SvcCatch(svcCall, "get")
              ELSE IF cached # None
              THEN [svcCall EXCEPT !.pc = "done", !.outcome = "return", !.hit = TRUE,
                                   !.result = Parse(cached[1])]
              ELSE [svcCall EXCEPT !.pc = "http"]
        /\ UNCHANGED << notSvc, now, redis >>

\* const response = await axios.get(url, { timeout: 5000 }); data = response.data
SvcHttpGet(outcome) ==
    /\ svcCall.pc = "http"
    /\ svcCall' =
          IF outcome # "ok" THEN SvcCatch(svcCall, outcome)
          ELSE [svcCall EXCEPT !.pc = "setex",
                    !.result = ServiceResponse(svcCall.tenant, svcCall.options)]
    /\ UNCHANGED << notSvc, now, redis >>

\* await redis.setex(cacheKey, 120, JSON.stringify(data)); return data
SvcSetex(fails) ==
    /\ svcCall.pc = "setex"
    /\ IF fails
       THEN /\ svcCall' = SvcCatch(svcCall, "setex")
            /\ UNCHANGED redis
       ELSE /\ redis' = RedisSetex(redis, ServiceCacheKey(svcCall.tenant, svcCall.options),
                                   ServiceCacheTTL, Stringify(svcCall.result), now)
            /\ svcCall' = [svcCall EXCEPT !.pc = "done", !.outcome = "return"]
    /\ UNCHANGED << notSvc, now >>

SvcReturn ==
    /\ svcCall.pc = "done"
    /\ svcCall' = IdleSvcCall
    /\ UNCHANGED << notSvc, now, redis >>

NextService ==
    \/ Tick(MaxDataTime)
    \/ \E t \in TenantIds, o \in ServiceOptions : SvcStart(t, o)
    \/ \E f \in BOOLEAN : SvcCacheGet(f)
    \/ \E o \in HttpOutcomes : SvcHttpGet(o)
    \/ \E f \in BOOLEAN : SvcSetex(f)
    \/ SvcReturn

SpecService == Init /\ [][NextService]_vars

\* C13: getProductsFromService never fails: whenever the cache read, the
\* HTTP call (error status, connection failure or timeout) or the cache
\* write fails, the call returns {products: [], total: 0}, and the cache
\* entry of its key is what it was when the call began.
C13_ServiceLookupNeverFails ==
    svcCall.pc = "done"
        => /\ svcCall.outcome = "return"
           /\ svcCall.failedAt # "none"
                 => /\ svcCall.result = EmptyResult
                    /\ RedisGet(redis, ServiceCacheKey(svcCall.tenant, svcCall.options), now)
                           = svcCall.before

\* The products service answered with products and the cache write failed.
C13_Witness ==
    /\ svcCall.pc = "done" /\ svcCall.failedAt = "setex"
    /\ svcCall.outcome = "return" /\ svcCall.result = EmptyResult
    /\ ServiceResponse(svcCall.tenant, svcCall.options).total > 0
    /\ svcCall.before = None

\* ------------------------------------------------------------------------
\* purgeCDNCache(tenantId)
\* ------------------------------------------------------------------------
\* if (!config.cloudflare.enabled) { logger.debug(...); return; }
PurgeStart(t, paths, enabled) ==
    /\ purgeCall.pc = "idle"
    /\ purgeRequests < MaxPurgeRequests
    /\ purgeCall' =
          IF ~enabled
          THEN [IdlePurgeCall EXCEPT !.pc = "done", !.tenant = t, !.paths = paths,
                                     !.outcome = "return",
                                     !.logged = "debug"]
          ELSE [IdlePurgeCall EXCEPT !.pc = "fetch", !.tenant = t, !.paths = paths,
                                     !.enabled = TRUE]
    /\ UNCHANGED << notPurge, now, redis, cdnPurged, purgeRequests >>

\* const response = await fetch(.../purge_cache, ...);
\* if (!response.ok) throw new Error(...); logger.info(...)
PurgeFetch(outcome) ==
    LET call == [purgeCall EXCEPT !.sent = TRUE]
    IN  /\ purgeCall.pc = "fetch"
        /\ purgeRequests' = purgeRequests + 1
        /\ IF outcome = "ok"
           THEN /\ purgeCall' = [call EXCEPT !.pc = "done", !.outcome = "return",
                                             !.logged = "info"]
                /\ cdnPurged' = cdnPurged \cup { SurrogateKey(call.tenant) }
           ELSE /\ purgeCall' = PurgeCatch(call)
                /\ UNCHANGED cdnPurged
        /\ UNCHANGED << notPurge, now, redis >>

PurgeReturn ==
    /\ purgeCall.pc = "done"
    /\ purgeCall' = IdlePurgeCall
    /\ UNCHANGED << notPurge, now, redis, cdnPurged, purgeRequests >>

\* The CDN caches a page of the tenant again (a storefront response carries
\* Surrogate-Key: tenant_{id}).
CdnCache(t) ==
    /\ SurrogateKey(t) \in cdnPurged
    /\ cdnPurged' = cdnPurged \ { SurrogateKey(t) }
    /\ UNCHANGED << notPurge, now, redis, purgeCall, purgeRequests >>

NextPurge ==
    \/ \E t \in TenantIds, ps \in PurgePaths, e \in BOOLEAN : PurgeStart(t, ps, e)
    \/ \E o \in FetchOutcomes : PurgeFetch(o)
    \/ PurgeReturn
    \/ \E t \in TenantIds : CdnCache(t)

SpecPurge == Init /\ [][NextPurge]_vars

\* C19: purgeCDNCache never raises: when the purge request fails (network
\* error or a response that is not ok) the failure is logged and the call
\* returns normally, and with CDN purging disabled no request is sent.
C19_PurgeNeverRaises ==
    purgeCall.pc = "done"
        => /\ purgeCall.outcome = "return"
           /\ purgeCall.failed => purgeCall.logged = "error"
           /\ ~purgeCall.enabled => ~purgeCall.sent

\* A purge request was sent and answered with a response that is not ok.
C19_Witness ==
    /\ purgeCall.pc = "done" /\ purgeCall.enabled /\ purgeCall.sent
    /\ purgeCall.failed /\ purgeCall.logged = "error"
    /\ purgeCall.outcome = "return"
    /\ SurrogateKey(purgeCall.tenant) \notin cdnPurged

\* ------------------------------------------------------------------------
\* POST /preview
\* ------------------------------------------------------------------------
\* const { blocks, tenantId, editable } = req.body;
\* if (!blocks || !Array.isArray(blocks)) return res.status(400).json(...)
PreviewStart(blocks, t, editable) ==
    /\ preview.pc = "idle"
    /\ preview' =
          IF blocks = None
          THEN [preview EXCEPT !.pc = "done", !.blocks = None, !.tenantId = t,
                               !.editable = editable, !.status = 400, !.html = << >>,
                               !.touchedDb = FALSE]
          ELSE [preview EXCEPT !.pc = "render", !.blocks = blocks, !.tenantId = t,
                               !.editable = editable, !.status = 0, !.html = << >>,
                               !.touchedDb = FALSE]
    /\ UNCHANGED << notBlock, now, redis, shopProducts >>

\* const blocksHtml = blocks.map(...).join(''); res.send(previewHtml)
\* catch (error) { res.status(500).json({ error: 'Preview rendering failed' }) }
PreviewRender(fails) ==
    LET r == RenderBlocks(preview.blocks[1], preview.editable,
                          shopProducts[preview.tenantId], fails, 1,
                          Fragment(<< >>, FALSE))
    IN  /\ preview.pc = "render"
        /\ preview' =
              IF r.ok
              THEN [preview EXCEPT !.pc = "done", !.status = 200,
                        !.html = << "<body>" >> \o r.html \o << "</body>" >>,
                        !.touchedDb = r.db]
              ELSE [preview EXCEPT !.pc = "done", !.status = 500]
        /\ UNCHANGED << notBlock, now, redis, shopProducts >>

\* The response is sent; the page it carried is remembered.
PreviewDone ==
    /\ preview.pc = "done"
    /\ preview' = [IdlePreview EXCEPT !.last =
          IF preview.status = 200
          THEN Some([input |-> PreviewInput(preview), html |-> preview.html])
          ELSE preview.last]
    /\ UNCHANGED << notBlock, now, redis, shopProducts >>

\* The merchant adds or removes products (outside the renderer).
SetShopProducts(t, rows) ==
    /\ shopProducts[t] # rows
    /\ shopProducts' = [shopProducts EXCEPT ![t] = rows]
    /\ UNCHANGED << notBlock, now, redis, preview >>

PreviewTenants == { "t1" }

NextPreview ==
    \/ \E b \in { Some(l) : l \in BlockLists } \cup { None }, t \in PreviewTenants,
          e \in BOOLEAN : PreviewStart(b, t, e)
    \/ \E f \in BOOLEAN : PreviewRender(f)
    \/ PreviewDone
    \/ \E t \in PreviewTenants, rows \in { << >>, << "hat" >> } : SetShopProducts(t, rows)

SpecPreview == Init /\ [][NextPreview]_vars

\* C16: rendering a list of blocks never fails: a block whose type is
\* missing or unknown gives a non-empty placeholder that names the type, and
\* for every block list, also with malformed configuration, the page is
\* produced.
C16_BlockListAlwaysRenders ==
    /\ \A b \in Blocks, e \in BOOLEAN :
          (b.type = None \/ b.type[1] \notin KnownBlockTypes)
              => LET f == renderBlock(b, e, << >>, FALSE)
                 IN  /\ f.ok /\ Len(f.html) > 0
                     /\ \E i \in 1..Len(f.html) :
                            f.html[i] = (IF b.type # None THEN b.type[1] ELSE "undefined")
    /\ (preview.pc = "done" /\ preview.blocks # None) => preview.status = 200

PublishTheme(t, bundle) ==
    /\ publishes < MaxPublishes
    /\ themeRow[t] # Some(ThemeRowOf(t, "v2"))
    /\ publishes' = publishes + 1
    /\ themeRow' = [themeRow EXCEPT ![t] = Some(ThemeRowOf(t, "v2"))]
    /\ s3' = Upload(s3, ThemeS3Key(t, "v2"), bundle)
    /\ UNCHANGED << edgeVars, now, redis, tenantVars, dataVars, memoryCache, themeCall,
                    invTheme, themeFreshUntil, themeClean >>

\* ------------------------------------------------------------------------
\* getThemeForTenant(tenantId) in renderer process p, one action per await
\* ------------------------------------------------------------------------
\* History: a cache tier was filled for the tenant; an invalidation that a
\* lookup of the tenant overlaps counts as raced.
NoteThemeFill(t) ==
    /\ themeClean' = [themeClean EXCEPT ![t] = FALSE]
    /\ invTheme' = IF invTheme.pc = "del" /\ invTheme.tenant = t
                   THEN [invTheme EXCEPT !.raced = TRUE]
                   ELSE invTheme

\* catch (error) { logger.error(...); throw error; }
ThemeCatch(call, err) ==
    [call EXCEPT !.pc = "done", !.outcome = "error", !.failedAt = err,
                 !.result = None, !.at = now]

\* const memCached = memoryCache.get(cacheKey); if (memCached) return memCached
ThemeStart(p, t) ==
    LET memCached == MemGet(memoryCache[p], ThemeCacheKey(t), now)
        call == [IdleThemeCall EXCEPT !.tenant = t,
                                      !.fresh = now < themeFreshUntil[p][t]]
    IN  /\ themeCall[p].pc = "idle"
        /\ themeCall' = [themeCall EXCEPT ![p] =
              IF memCached # None
              THEN [call EXCEPT !.pc = "done", !.outcome = "return", !.at = now,
                                !.result = memCached, !.via = "memory"]
              ELSE [call EXCEPT !.pc = "redisGet"]]
        /\ UNCHANGED << edgeVars, now, redis, tenantVars, dataVars, memoryCache, themeRow, s3,
                        publishes, invTheme, themeFreshUntil, themeClean >>

\* const redisCached = await redis.get(cacheKey);
\* if (redisCached) { memoryCache.set(cacheKey, JSON.parse(redisCached)); return theme }
ThemeRedisGet(p, fails) ==
    LET call == themeCall[p]
        redisCached == RedisGet(redis, ThemeCacheKey(call.tenant), now)
    IN  /\ call.pc = "redisGet"
        /\ IF fails
           THEN /\ themeCall' = [themeCall EXCEPT ![p] = ThemeCatch(call, "cache_read")]
                /\ UNCHANGED << memoryCache, themeClean, invTheme >>
           ELSE IF redisCached # None
           THEN /\ memoryCache' = [memoryCache EXCEPT ![p] =
                      MemSet(@, ThemeCacheKey(call.tenant), Parse(redisCached[1]), now)]
                /\ themeCall' = [themeCall EXCEPT ![p] =
                      [call EXCEPT !.pc = "done", !.outcome = "return", !.at = now,
                                   !.result = Some(Parse(redisCached[1])),
                                   !.via = "redis"]]
                /\ NoteThemeFill(call.tenant)
           ELSE /\ themeCall' = [themeCall EXCEPT ![p] = [call EXCEPT !.pc = "dbQuery"]]
                /\ UNCHANGED << memoryCache, themeClean, invTheme >>
        /\ UNCHANGED << edgeVars, now, redis, tenantVars, dataVars, themeRow, s3, publishes,
                        themeFreshUntil >>

\* loadThemeFromStorage: SELECT ... FROM tenant_{t}.themes WHERE role = 'main' LIMIT 1
ThemeDbQuery(p, fails) ==
    LET call == [themeCall[p] EXCEPT !.touchedStorage = TRUE]
    IN  /\ call.pc = "dbQuery"
        /\ themeCall' = [themeCall EXCEPT ![p] =
              IF fails THEN ThemeCatch(call, "database")
              ELSE IF themeRow[call.tenant] = None
              THEN [call EXCEPT !.pc = "done", !.outcome = "return", !.result = None,
                                !.via = "storage", !.at = now]
              ELSE [call EXCEPT !.pc = "s3", !.row = themeRow[call.tenant]]]
        /\ UNCHANGED << edgeVars, now, redis, tenantVars, dataVars, memoryCache, themeRow, s3,
                        publishes, invTheme, themeFreshUntil, themeClean >>

\* const templates = await fetchThemeTemplatesFromS3(themeData.s3_key);
\* memoryCache.set(cacheKey, theme)
ThemeFetchTemplates(p, errs) ==
    LET call == themeCall[p]
        theme == LoadedTheme(call.row[1], s3, errs, now)
    IN  /\ call.pc = "s3"
        /\ memoryCache' = [memoryCache EXCEPT ![p] =
              MemSet(@, ThemeCacheKey(call.tenant), theme, now)]
        /\ themeCall' = [themeCall EXCEPT ![p] =
              [call EXCEPT !.pc = "setex", !.result = Some(theme), !.via = "storage"]]
        /\ NoteThemeFill(call.tenant)
        /\ UNCHANGED << edgeVars, now, redis, tenantVars, dataVars, themeRow, s3, publishes,
                        themeFreshUntil >>

ThemeSetexSkipped(p, fails) ==
    LET call == themeCall[p]
    IN  /\ call.pc = "setex"
        /\ themeCall' = [themeCall EXCEPT ![p] =
              [call EXCEPT !.pc = "done", !.outcome = "return", !.at = now,
                  !.memAfter = IF << "theme:", call.tenant >> \in DOMAIN memoryCache[p]
                               THEN Some(memoryCache[p][<< "theme:", call.tenant >>].val)
                               ELSE None,
                  !.redisAfter = IF << "renderer:", "theme:", call.tenant >> \in DOMAIN redis
                                 THEN Some(redis[<< "renderer:", "theme:", call.tenant >>].val)
                                 ELSE None]]
        /\ themeFreshUntil' = [themeFreshUntil EXCEPT ![p][call.tenant] =
                                    now + themesCacheTTL]
        /\ UNCHANGED << edgeVars, now, redis, tenantVars, dataVars, memoryCache, themeRow, s3,
                        publishes, themeClean, invTheme >>

\* await redis.setex(cacheKey, config.cache.themesCacheTTL, JSON.stringify(theme));
\* return theme
ThemeSetex(p, fails) ==
    LET call == themeCall[p]
        after == RedisSetex(redis, ThemeCacheKey(call.tenant), themesCacheTTL,
                            Stringify(call.result[1]), now)
    IN  /\ call.pc = "setex"
        /\ IF fails
           THEN /\ themeCall' = [themeCall EXCEPT ![p] = ThemeCatch(call, "cache_write")]
                /\ UNCHANGED << redis, themeFreshUntil, themeClean, invTheme >>
           ELSE /\ redis' = after
                /\ themeCall' = [themeCall EXCEPT ![p] =
                      [call EXCEPT !.pc = "done", !.outcome = "return", !.at = now,
                          !.memAfter =
                              IF << "theme:", call.tenant >> \in DOMAIN memoryCache[p]
                              THEN Some(memoryCache[p][<< "theme:", call.tenant >>].val)
                              ELSE None,
                          !.redisAfter =
                              IF << "renderer:", "theme:", call.tenant >> \in DOMAIN after
                              THEN Some(after[<< "renderer:", "theme:", call.tenant >>].val)
                              ELSE None]]
                /\ themeFreshUntil' = [themeFreshUntil EXCEPT ![p][call.tenant] =
                                            now + themesCacheTTL]
                /\ NoteThemeFill(call.tenant)
        /\ UNCHANGED << edgeVars, now, tenantVars, dataVars, memoryCache, themeRow, s3, publishes >>

ThemeReturn(p) ==
    /\ themeCall[p].pc = "done"
    /\ themeCall' = [themeCall EXCEPT ![p] = IdleThemeCall]
    /\ UNCHANGED << edgeVars, now, redis, tenantVars, dataVars, memoryCache, themeRow, s3,
                    publishes, invTheme, themeFreshUntil, themeClean >>

\* ------------------------------------------------------------------------
\* invalidateThemeCache(tenantId) in renderer process p
\* ------------------------------------------------------------------------
\* History: an invalidation of the tenant's theme took a step.
NoteThemeInvalidation(t) ==
    /\ themeFreshUntil' = [q \in Procs |-> [themeFreshUntil[q] EXCEPT ![t] = 0]]
    /\ themeCall' = [q \in Procs |->
          IF ThemeInFlight(q) /\ themeCall[q].tenant = t
          THEN [themeCall[q] EXCEPT !.fresh = FALSE, !.invalidated = TRUE]
          ELSE themeCall[q]]

\* memoryCache.del(cacheKey)
InvalidateThemeStart(p, t) ==
    /\ invTheme.pc = "idle"
    /\ memoryCache' = [memoryCache EXCEPT ![p] = MemDel(@, ThemeCacheKey(t))]
    /\ invTheme' = [pc |-> "del", proc |-> p, tenant |-> t,
                     raced |-> \E q \in Procs : ThemeInFlight(q) /\ themeCall[q].tenant = t]
    /\ NoteThemeInvalidation(t)
    /\ UNCHANGED << edgeVars, now, redis, tenantVars, dataVars, themeRow, s3, publishes,
                    themeClean >>

\* await redis.del(cacheKey)
InvalidateThemeDel(fails) ==
    /\ invTheme.pc = "del"
    /\ IF fails
       THEN /\ invTheme' = [invTheme EXCEPT !.pc = "failed"]
            /\ UNCHANGED << redis, themeClean >>
       ELSE /\ invTheme' = [invTheme EXCEPT !.pc = "returned"]
            /\ redis' = RedisDel(redis, { ThemeCacheKey(invTheme.tenant) })
            /\ themeClean' = [themeClean EXCEPT ![invTheme.tenant] =
                    /\ ~invTheme.raced
                    /\ \A q \in Procs :
                          ~(ThemeInFlight(q) /\ themeCall[q].tenant = invTheme.tenant)]
    /\ NoteThemeInvalidation(invTheme.tenant)
    /\ UNCHANGED << edgeVars, now, tenantVars, dataVars, memoryCache, themeRow, s3, publishes >>

InvalidateThemeDone ==
    /\ invTheme.pc \in {"failed", "returned"}
    /\ invTheme' = IdleInvTheme
    /\ UNCHANGED << edgeVars, now, redis, tenantVars, dataVars, memoryCache, themeRow, s3,
                    publishes, themeCall, themeFreshUntil, themeClean >>

\* Two renderer processes serving the tenant that has a theme, the clock
\* and invalidations; blob storage answers every request.
ThemedTenants == {"t1"}

NextTheme ==
    \/ Tick(MaxThemeTime)
    \/ \E p \in Procs, t \in ThemedTenants : ThemeStart(p, t)
    \/ \E p \in Procs, f \in BOOLEAN : ThemeRedisGet(p, f)
    \/ \E p \in Procs, f \in BOOLEAN : ThemeDbQuery(p, f)
    \/ \E p \in Procs : ThemeFetchTemplates(p, {})
    \/ \E p \in Procs, f \in BOOLEAN : ThemeSetex(p, f)
    \/ \E p \in Procs : ThemeReturn(p)
    \/ \E p \in Procs, t \in ThemedTenants : InvalidateThemeStart(p, t)
    \/ \E f \in BOOLEAN : InvalidateThemeDel(f)
    \/ InvalidateThemeDone

SpecTheme == Init /\ [][NextTheme]_vars

\* One renderer process, theme publishes and failing blob-storage requests.
NextThemeLoad ==
    \/ \E t \in TenantIds, b \in Bundles : PublishTheme(t, b)
    \/ \E t \in TenantIds : ThemeStart("p1", t)
    \/ \E f \in BOOLEAN : ThemeRedisGet("p1", f)
    \/ \E f \in BOOLEAN : ThemeDbQuery("p1", f)
    \/ \E errs \in S3ErrorSets : ThemeFetchTemplates("p1", errs)
    \/ \E f \in BOOLEAN : ThemeSetex("p1", f)
    \/ ThemeReturn("p1")
    \/ \E t \in TenantIds : InvalidateThemeStart("p1", t)
    \/ \E f \in BOOLEAN : InvalidateThemeDel(f)
    \/ InvalidateThemeDone

SpecThemeLoad == Init /\ [][NextThemeLoad]_vars

\* ------------------------------------------------------------------------
\* Theme loader: properties
\* ------------------------------------------------------------------------
ThemeDone(p) == themeCall[p].pc = "done"

ThemeReturned(p) ==
    ThemeDone(p) /\ themeCall[p].outcome = "return" /\ themeCall[p].result # None

\* C1: when a load from the database and blob storage completes (no
\* invalidation having run meanwhile), the process-local cache and the
\* distributed cache both hold the theme under theme:{t}; a later lookup in
\* the same process within the TTL window, with no invalidation in between,
\* never queries storage, and what it returns is the tenant's theme.
C1_LoadFillsBothTiersThenNoStorage ==
    \A p \in Procs :
        LET call == themeCall[p] IN
        ThemeDone(p) =>
            /\ (ThemeReturned(p) /\ call.via = "storage" /\ ~call.invalidated) =>
                    /\ call.memAfter = call.result
                    /\ call.redisAfter = Some(Stringify(call.result[1]))
            /\ call.fresh =>
                    /\ ~call.touchedStorage
                    /\ call.via \in {"memory", "redis", "none"}
                    /\ call.outcome = "return" =>
                            (call.result # None /\ call.result[1].id = call.tenant)

C1_Witness ==
    \E p \in Procs :
        /\ ThemeReturned(p) /\ themeCall[p].fresh /\ themeCall[p].via = "memory"
        /\ now > 0 /\ now < themeFreshUntil[p][themeCall[p].tenant]
        /\ << "renderer:", "theme:", themeCall[p].tenant >> \in DOMAIN redis

\* C7: once invalidateThemeCache(t) has completed, with no lookup filling a
\* tier during or after it, no renderer process holds theme:{t} in its
\* process-local cache and the distributed cache holds no entry for it.
C7_InvalidateClearsEveryTier ==
    \A t \in TenantIds :
        themeClean[t] =>
            /\ \A p \in Procs : << "theme:", t >> \notin DOMAIN memoryCache[p]
            /\ << "renderer:", "theme:", t >> \notin DOMAIN redis

\* C8: a theme is never served more than themesCacheTTL after it was loaded
\* from storage.
C8_ServedWithinTTLOfLoad ==
    \A p \in Procs :
        ThemeReturned(p) =>
            themeCall[p].at - themeCall[p].result[1].loadedAt <= themesCacheTTL

\* C9: a theme that lost templates to a blob-storage error other than a
\* missing file is never returned and never held by a cache tier.
C9_NoThemeWithDroppedTemplates ==
    /\ \A p \in Procs : ThemeReturned(p) => themeCall[p].result[1].dropped = {}
    /\ \A p \in Procs : \A k \in DOMAIN memoryCache[p] : memoryCache[p][k].val.dropped = {}
    /\ \A k \in DOMAIN redis : Parse(redis[k].val).dropped = {}

\* C10: a theme loaded from storage (no storage request having failed) has
\* every template among index, product, collection, page, cart, search and
\* layout whose file exists under {s3_key}/templates/.
C10_ExistingTemplatesLoaded ==
    \A p \in Procs :
        (ThemeReturned(p) /\ themeCall[p].via = "storage"
                          /\ themeCall[p].result[1].dropped = {}) =>
            \A n \in ThemeTemplateNames :
                (themeCall[p].result[1].s3_key \o << "/templates/", n, ".liquid" >>) \in DOMAIN s3
                    => n \in DOMAIN themeCall[p].result[1].templates

\* C18: a failing lookup leaves every cache tier as it was before the call.
\* getThemeForTenant reaches its awaits only after it found no process-local
\* entry for its key, so after a failed call the process holds none.
C18_FailedLookupLeavesCachesUnchanged ==
    \A p \in Procs :
        (themeCall[p].pc = "done" /\ themeCall[p].outcome = "error")
            => MemGet(memoryCache[p], ThemeCacheKey(themeCall[p].tenant), now) = None

\* ------------------------------------------------------------------------
\* router.get('*', ...): the request handler, one action per await; the
\* lookups it awaits take their own steps in between
\* ------------------------------------------------------------------------
ReqStart(h, path) ==
    /\ req.pc = "idle"
    /\ tenantCall["a"].pc = "idle" /\ themeCall["p1"].pc = "idle" /\ dataCall.pc = "idle"
    /\ req' = [IdleReq EXCEPT !.pc = "tenant", !.host = h, !.path = path]
    /\ UNCHANGED << notReq, tenantVars, dataVars, themeVars, now, redis >>

\* Step 1: getTenantFromHost(host) is called
ReqCallTenant ==
    /\ req.pc = "tenant"
    /\ TenantStart("a", req.host)

ReqTenantResult ==
    /\ req.pc = "tenant"
    /\ tenantCall["a"].pc = "done"
    /\ req' = AfterTenant(req, tenantCall["a"])
    /\ tenantCall' = [tenantCall EXCEPT !["a"] = IdleTenantCall]
    /\ UNCHANGED << notReq, dataVars, themeVars, now, redis, domainMapping, tenantStatus,
                    registryChanges, invTenant, tenantClean >>

\* Step 2: getThemeForTenant(tenant.tenant_id) is called
ReqCallTheme ==
    /\ req.pc = "theme"
    /\ ThemeStart("p1", req.tenant[1].tenant_id)

ReqThemeResult ==
    /\ req.pc = "theme"
    /\ themeCall["p1"].pc = "done"
    /\ req' = AfterTheme(req, themeCall["p1"])
    /\ themeCall' = [themeCall EXCEPT !["p1"] = IdleThemeCall]
    /\ UNCHANGED << notReq, tenantVars, dataVars, now, redis, memoryCache, themeRow, s3,
                    publishes, invTheme, themeFreshUntil, themeClean >>

\* Step 3: resolveRoute(path, tenant.tenant_id) awaits its next catalog call
ReqCallData ==
    /\ req.pc = "route"
    /\ RouteNextCall(req.path, req.data) # None
    /\ DataStart(RouteNextCall(req.path, req.data)[1].kind, req.tenant[1].tenant_id,
                 RouteNextCall(req.path, req.data)[1].options)

ReqDataResult ==
    /\ req.pc = "route"
    /\ dataCall.pc = "done"
    /\ req' = IF dataCall.outcome = "error"
              THEN Fail([req EXCEPT !.stages = Append(@, "route")], Failure("catalog"))
              ELSE AfterRoute(req,
                      IF dataCall.kind = "collections"
                      THEN [req.data EXCEPT !.collections = Some(dataCall.result)]
                      ELSE [req.data EXCEPT !.products = Some(dataCall.result)])
    /\ dataCall' = IdleDataCall
    /\ UNCHANGED << notReq, tenantVars, themeVars, now, redis, invData, dataClean >>

\* resolveRoute for a path that needs no catalog call: a page, or no route
ReqRouteNoData ==
    /\ req.pc = "route"
    /\ RouteKind(req.path) \in {"page", "none"}
    /\ req' = AfterRoute(req, req.data)
    /\ UNCHANGED << notReq, tenantVars, dataVars, themeVars, now, redis >>

\* Steps 4 and 5: renderPage(...), headers, res.send(html)
ReqRender(fails) ==
    LET page == renderPage(req.theme[1], req.route[1], fails)
        done == [req EXCEPT !.stages = Append(@, "render")]
    IN  /\ req.pc = "render"
        /\ req' = IF page.ok THEN Respond(done, 200, page.html)
                  ELSE Fail(done, page.error)
        /\ UNCHANGED << notReq, tenantVars, dataVars, themeVars, now, redis >>

ReqDone ==
    /\ req.pc = "responded"
    /\ req' = IdleReq
    /\ UNCHANGED << notReq, tenantVars, dataVars, themeVars, now, redis >>

NextRequest ==
    \/ \E h \in Hosts, path \in Paths : ReqStart(h, path)
    \/ ReqCallTenant
    \/ \E f \in BOOLEAN : TenantCacheGet("a", f)
    \/ \E f \in BOOLEAN : TenantQuery("a", f)
    \/ \E f \in BOOLEAN : TenantSetex("a", f)
    \/ ReqTenantResult
    \/ ReqCallTheme
    \/ \E f \in BOOLEAN : ThemeRedisGet("p1", f)
    \/ \E f \in BOOLEAN : ThemeDbQuery("p1", f)
    \/ ThemeFetchTemplates("p1", {})
    \/ \E f \in BOOLEAN : ThemeSetex("p1", f)
    \/ ReqThemeResult
    \/ ReqCallData
    \/ \E f \in BOOLEAN : DataCacheGet(f)
    \/ \E f \in BOOLEAN : DataQuery(f)
    \/ \E f \in BOOLEAN : DataSetex(f)
    \/ ReqDataResult
    \/ ReqRouteNoData
    \/ \E f \in BOOLEAN : ReqRender(f)
    \/ ReqDone
    \/ SetDomainMapping("h2", Some([tenant_id |-> "t2", verified |-> TRUE]))

SpecRequest == Init /\ [][NextRequest]_vars

\* ------------------------------------------------------------------------
\* Storefront route: properties
\* ------------------------------------------------------------------------
\* What route resolution ended with: the type of the route data it returned,
\* or the message of the error it raised.
RouteEnded(r) == Len(r.stages) >= 3

RouteOutcome(r) ==
    IF r.route # None THEN r.route[1].type ELSE r.thrown[1].message

\* The patterns of resolveRoute that a path matches.
PatternsMatching(path) ==
    { k \in {"products", "collections", "pages"} : MatchHandleRoute(path, k) # None }
    \cup (IF IsRoot(path) THEN {"root"} ELSE {})

\* The path is /{first}/{handle} with a handle of lowercase letters, digits
\* and hyphens.
IsHandlePath(path, first) ==
    Len(path) = 2 /\ path[1] = first /\ path[2] \in HandleSegments

\* C14: resolveRoute dispatches on the path alone: '/' or '' gives home,
\* /products/{handle} product, /collections/{handle} collection,
\* /pages/{handle} page, with {handle} one segment of lowercase letters,
\* digits and hyphens; no path matches two patterns; every other path
\* (uppercase, dot, empty or extra segment) fails with 'Page not found'.
C14_DispatchByPath ==
    /\ \A path \in Paths : Cardinality(PatternsMatching(path)) <= 1
    /\ RouteEnded(req) =>
          IF req.path = << >> \/ req.path = << "" >>
          THEN RouteOutcome(req) \in {"home", "catalog"}
          ELSE IF IsHandlePath(req.path, "products")
          THEN RouteOutcome(req) \in {"product", "Product not found", "catalog"}
          ELSE IF IsHandlePath(req.path, "collections")
          THEN RouteOutcome(req) \in {"collection", "Collection not found", "catalog"}
          ELSE IF IsHandlePath(req.path, "pages")
          THEN RouteOutcome(req) = "page"
          ELSE RouteOutcome(req) = "Page not found"

\* /products/Shirt reached route resolution and fell through to not-found.
C14_Witness ==
    /\ req.pc = "responded" /\ RouteEnded(req)
    /\ req.path = << "products", "Shirt" >>
    /\ req.route = None
    /\ req.thrown = Some(Failure("Page not found"))

\* The handles of the tenant's existing entities: active products,
\* published collections, and the pages the tenant has.
TenantPages(t) == IF t = "t1" THEN { "about" } ELSE {}

ExistingHandles(t, type) ==
    IF type = "product"
    THEN { ProductRows(t)[i].handle : i \in { j \in 1..Len(ProductRows(t)) :
                                                ProductRows(t)[j].status = "active" } }
    ELSE IF type = "collection"
    THEN { CollectionRows(t)[i].handle : i \in { j \in 1..Len(CollectionRows(t)) :
                                                   CollectionRows(t)[j].published } }
    ELSE TenantPages(t)

\* C15: for /products/{handle}, /collections/{handle} and /pages/{handle},
\* when the tenant has no entity with that handle the request does not end
\* with a rendered page: a rendered page implies that the entity exists.
C15_UnknownHandleNeverRendered ==
    (/\ req.pc = "responded" /\ req.response[1].status = 200
     /\ req.route[1].type \in {"product", "collection", "page"})
        => req.route[1].handle \in ExistingHandles(req.tenant[1].tenant_id, req.route[1].type)

\* C20: the stages run in the order tenant, theme, route, render, each
\* after the one before succeeded: a theme load runs only for a resolved
\* tenant, catalog calls and rendering only with a theme; a tenant that is
\* not found ends with 404 'Store not found' after the tenant stage alone,
\* a theme that is not found with 500 'Theme not configured' after tenant
\* and theme; a request is answered exactly once.
C20_StagesInOrder ==
    /\ req.responses <= 1
    /\ themeCall["p1"].pc # "idle" => (req.pc = "theme" /\ req.tenant # None)
    /\ req.pc \in {"route", "render"} => (req.tenant # None /\ req.theme # None)
    /\ dataCall.pc # "idle" => req.pc = "route"
    /\ req.pc = "render" => req.route # None
    /\ req.pc = "responded" =>
          /\ req.responses = 1
          /\ req.stages = SubSeq(<< "tenant", "theme", "route", "render" >>, 1,
                                 Len(req.stages))
          /\ (req.tenant = None /\ req.thrown = None)
                => /\ req.response[1] = [status |-> 404, body |-> << "Store not found" >>]
                   /\ req.stages = << "tenant" >>
          /\ (req.tenant # None /\ req.theme = None /\ req.thrown = None)
                => /\ req.response[1] = [status |-> 500, body |-> << "Theme not configured" >>]
                   /\ req.stages = << "tenant", "theme" >>
          /\ req.response[1].status = 200
                => req.stages = << "tenant", "theme", "route", "render" >>

\* A host mapped to a tenant without a theme was answered 'Theme not
\* configured' after the tenant and theme stages.
C20_Witness ==
    /\ req.pc = "responded" /\ req.host = "h2"
    /\ req.tenant # None /\ req.theme = None /\ req.thrown = None
    /\ req.response[1].body = << "Theme not configured" >>
    /\ req.stages = << "tenant", "theme" >>
    /\ dataCall.pc = "idle"

\* ------------------------------------------------------------------------
\* errorHandler as the last middleware: next(err) reaches it
\* ------------------------------------------------------------------------
notErr == << now, redis, tenantVars, dataVars, themeVars, svcVars, purgeVars, blockVars,
             reqVars, healthVars, checkoutVars, filterVars, raceVars, limitVars,
             cartVars >>

\* A route calls next(err), before or after it has begun its response
ErrRaise(err, headersSent, env) ==
    /\ errCall.pc = "idle"
    /\ errCall' = [IdleErrCall EXCEPT !.pc = "handler", !.err = err,
                                      !.headersSent = headersSent, !.env = env]
    /\ UNCHANGED notErr

\* if (res.headersSent) return next(err); ... res.status(statusCode).json(response)
ErrHandle ==
    /\ errCall.pc = "handler"
    /\ errCall' = IF errCall.headersSent
                  THEN [errCall EXCEPT !.pc = "done", !.nexted = TRUE]
                  ELSE [errCall EXCEPT !.pc = "done",
                            !.response = Some(ErrorJson(errCall.err, errCall.env))]
    /\ UNCHANGED notErr

ErrDone ==
    /\ errCall.pc = "done"
    /\ errCall' = IdleErrCall
    /\ UNCHANGED notErr

NextError ==
    \/ \E err \in Errors, hs \in BOOLEAN, env \in NodeEnvs : ErrRaise(err, hs, env)
    \/ ErrHandle
    \/ ErrDone

SpecError == Init /\ [][NextError]_vars

\* The error is anything but an AppError with isOperational = true
NotOperationalAppError(err) == ~(err.isAppError /\ err.isOperational)

\* What the handler did apart from the status: nothing but next(err) when
\* the headers were sent, else the fixed text, with the stack only in
\* development.
SanitizedApartFromStatus(c) ==
    IF c.headersSent
    THEN c.response = None /\ c.nexted
    ELSE /\ c.response # None /\ ~c.nexted
         /\ c.response[1].error = "Internal Server Error"
         /\ (c.response[1].stack # None) <=> (c.env = "development")

\* C21 as stated: for every error that reaches errorHandler and is not an
\* operational AppError the response has status 500 and the fixed text
\* 'Internal Server Error' whatever the message; the stack is included only
\* in development; with headers already sent the handler writes nothing and
\* delegates to next.
C21_NonOperationalGives500 ==
    (errCall.pc = "done" /\ NotOperationalAppError(errCall.err))
        => /\ SanitizedApartFromStatus(errCall)
           /\ ~errCall.headersSent => errCall.response[1].status = 500

\* C21 amended: for every error that is not an operational AppError the
\* response's error field is the fixed text whatever the message, and its
\* status is 500 for an error that is not an AppError and the error's own
\* statusCode for a non-operational AppError; the stack is included only in
\* development; with headers already sent the handler writes nothing and
\* delegates to next.
C21_NonOperationalSanitized ==
    (errCall.pc = "done" /\ NotOperationalAppError(errCall.err))
        => /\ SanitizedApartFromStatus(errCall)
           /\ ~errCall.headersSent =>
                errCall.response[1].status =
                    IF errCall.err.isAppError THEN errCall.err.statusCode ELSE 500

C21_Witness ==
    /\ errCall.pc = "done"
    /\ errCall.err = AppError("connect ECONNREFUSED 10.0.0.5:5432", 503, FALSE)
    /\ ~errCall.headersSent
    /\ errCall.env = "production"
    /\ errCall.response = Some([status |-> 503, error |-> "Internal Server Error",
                                stack |-> None])

\* ------------------------------------------------------------------------
\* GET /health/live, /health/ready, /health/startup, one action per await
\* ------------------------------------------------------------------------
notHealth == << now, redis, tenantVars, dataVars, themeVars, svcVars, purgeVars,
                blockVars, reqVars, errVars, checkoutVars, filterVars, raceVars,
                limitVars, cartVars >>

\* The database or the cache changes its state (outside the renderer)
SetDependency(db, cache) ==
    /\ << db, cache >> # << health.db, health.cache >>
    /\ health' = [health EXCEPT !.db = db, !.cache = cache]
    /\ UNCHANGED notHealth

\* const checks = {}; let allHealthy = true
HealthStart(endpoint) ==
    /\ health.pc = "idle"
    /\ health' = [IdleHealth EXCEPT !.pc = IF endpoint = "live" THEN "respond" ELSE "db",
                                    !.endpoint = endpoint,
                                    !.db = health.db, !.cache = health.cache]
    /\ UNCHANGED notHealth

\* try { checks.database = (await pool.query('SELECT 1')).rowCount === 1 }
\* catch { checks.database = false; allHealthy = false }
HealthDbQuery ==
    LET result == SelectOne(health.db)
    IN  /\ health.pc = "db"
        /\ health' =
              IF result.raised
              THEN [health EXCEPT !.checks.database = Some(FALSE), !.allHealthy = FALSE,
                                  !.pc = IF health.endpoint = "ready" THEN "redis"
                                         ELSE "respond"]
              ELSE [health EXCEPT !.checks.database = Some(result.rowCount = 1),
                                  !.pc = IF health.endpoint = "ready" THEN "redis"
                                         ELSE "respond"]
        /\ UNCHANGED notHealth

\* try { checks.redis = (await redis.ping()) === 'PONG' }
\* catch { checks.redis = false; allHealthy = false }
HealthRedisPing ==
    LET result == Ping(health.cache)
    IN  /\ health.pc = "redis"
        /\ health' =
              IF result.raised
              THEN [health EXCEPT !.checks.redis = Some(FALSE), !.allHealthy = FALSE,
                                  !.pc = "respond"]
              ELSE [health EXCEPT !.checks.redis = Some(result.pong = "PONG"),
                                  !.pc = "respond"]
        /\ UNCHANGED notHealth

\* res.status(allHealthy ? 200 : 503).json({ status, checks, timestamp })
HealthRespond ==
    /\ health.pc = "respond"
    /\ health' = [health EXCEPT !.pc = "done",
                     !.response = Some([status |-> IF health.allHealthy THEN 200 ELSE 503,
                                        checks |-> health.checks])]
    /\ UNCHANGED notHealth

HealthDone ==
    /\ health.pc = "done"
    /\ health' = [IdleHealth EXCEPT !.db = health.db, !.cache = health.cache]
    /\ UNCHANGED notHealth

NextHealth ==
    \/ \E db \in DependencyStates, cache \in DependencyStates : SetDependency(db, cache)
    \/ \E e \in HealthEndpoints : HealthStart(e)
    \/ HealthDbQuery
    \/ HealthRedisPing
    \/ HealthRespond
    \/ HealthDone

SpecHealth == Init /\ [][NextHealth]_vars

\* C22: GET /health/ready responds 200 exactly when both booleans in its
\* checks (database and cache) are true, and 503 in every other case, also
\* when a dependency call returned without raising and its check is false.
C22_ReadyIffBothChecksTrue ==
    (health.pc = "done" /\ health.endpoint = "ready")
        => /\ health.response[1].status \in { 200, 503 }
           /\ (health.response[1].status = 200)
                <=> (health.response[1].checks.database = Some(TRUE)
                     /\ health.response[1].checks.redis = Some(TRUE))

\* ------------------------------------------------------------------------
\* POST /cart/checkout and POST /cart/validate-discount, one action per
\* await; the tenant lookup takes its own steps in between
\* ------------------------------------------------------------------------
notCheckout == << svcVars, purgeVars, blockVars, reqVars, errVars, healthVars,
                  filterVars, raceVars, limitVars, cartVars >>

CheckoutStart(route, h, body) ==
    /\ checkout.pc = "idle"
    /\ tenantCall["a"].pc = "idle"
    /\ checkout' = [IdleCheckout EXCEPT !.pc = "tenant", !.route = route, !.host = h,
                                        !.body = body]
    /\ UNCHANGED << notCheckout, tenantVars, dataVars, themeVars, now, redis >>

\* const tenant = await getTenantFromHost(host)
CheckoutCallTenant ==
    /\ checkout.pc = "tenant"
    /\ TenantStart("a", checkout.host)

CheckoutTenantResult ==
    /\ checkout.pc = "tenant"
    /\ tenantCall["a"].pc = "done"
    /\ checkout' = AfterCheckoutTenant(checkout, tenantCall["a"])
    /\ tenantCall' = [tenantCall EXCEPT !["a"] = IdleTenantCall]
    /\ UNCHANGED << notCheckout, dataVars, themeVars, now, redis, domainMapping,
                    tenantStatus, registryChanges, invTenant, tenantClean >>

\* await validateDiscountCode(tenant.tenant_id, code, subtotal)
CheckoutDiscount(reply) ==
    /\ checkout.pc = "discount"
    /\ checkout' = AfterDiscount(checkout, reply)
    /\ UNCHANGED << notCheckout, tenantVars, dataVars, themeVars, now, redis >>

\* await createCheckout(checkoutData)
CheckoutCreate(outcome) ==
    /\ checkout.pc = "create"
    /\ checkout' = AfterCreate(checkout, outcome)
    /\ UNCHANGED << notCheckout, tenantVars, dataVars, themeVars, now, redis >>

CheckoutDone ==
    /\ checkout.pc = "done"
    /\ checkout' = IdleCheckout
    /\ UNCHANGED << notCheckout, tenantVars, dataVars, themeVars, now, redis >>

NextCheckout ==
    \/ \E h \in Hosts, body \in CheckoutBodies : CheckoutStart("checkout", h, body)
    \/ \E h \in Hosts, body \in ValidateBodies : CheckoutStart("validate", h, body)
    \/ CheckoutCallTenant
    \/ \E f \in BOOLEAN : TenantCacheGet("a", f)
    \/ \E f \in BOOLEAN : TenantQuery("a", f)
    \/ \E f \in BOOLEAN : TenantSetex("a", f)
    \/ CheckoutTenantResult
    \/ \E reply \in DiscountReplies : CheckoutDiscount(reply)
    \/ \E outcome \in CheckoutOutcomes : CheckoutCreate(outcome)
    \/ CheckoutDone

SpecCheckout == Init /\ [][NextCheckout]_vars

\* A required field of POST /cart/checkout is missing from the body
MissingField(body) ==
    \/ body.items = None \/ body.items = Some(<< >>)
    \/ body.customer_email = None
    \/ body.shipping_address = None

\* C23: POST /cart/checkout responds with success only if the tenant was
\* resolved, items, customer_email and shipping_address are present, the
\* discount code (when given) was validated as valid, and the checkout
\* service returned a result; a missing field yields 400 without a call to
\* the checkout service; every failure of the checkout or discount service
\* gives a response that is not a success.
C23_CheckoutSuccessOnlyWhenAllSucceeded ==
    (checkout.pc = "done" /\ checkout.route = "checkout")
        => LET r == checkout.response[1]
           IN  /\ (r.success \/ r.status = 200)
                    => /\ r.success /\ r.status = 200
                       /\ checkout.tenant # None
                       /\ ~MissingField(checkout.body)
                       /\ Given(checkout.body.discount_code)
                            => (checkout.validation # None
                                /\ checkout.validation[1].valid
                                /\ checkout.discountService = "ok")
                       /\ checkout.checkoutService = "ok"
                       /\ r.order = Some([checkout_url |-> "https://checkout/o1",
                                          order_id |-> "o1"])
               /\ (MissingField(checkout.body) /\ checkout.tenant # None)
                    => r.status = 400
               /\ MissingField(checkout.body) => checkout.checkoutService = "none"
               /\ checkout.checkoutService \in CheckoutOutcomes \ { "ok" }
                    => (~r.success /\ r.status = 500)
               /\ checkout.discountService \in DiscountServiceFailures
                    => (~r.success /\ r.status = 400
                        /\ checkout.checkoutService = "none")

C23_Witness ==
    /\ checkout.pc = "done" /\ checkout.route = "checkout"
    /\ checkout.body.discount_code = Some("SAVE")
    /\ checkout.discountService = "ok"
    /\ checkout.checkoutService = "timeout"
    /\ checkout.response[1].status = 500
    /\ ~checkout.response[1].success

\* C30: for every discount accepted by validateDiscountCode and every
\* subtotal of 0 or more, calculateDiscount returns an amount between 0 and
\* the subtotal, so the total reported by POST /cart/checkout and by
\* POST /cart/validate-discount (subtotal minus discount) is never negative.
C30_DiscountWithinSubtotal ==
    (checkout.pc = "done" /\ checkout.response[1].status = 200)
        => /\ checkout.validation # None =>
                (checkout.validation[1].valid
                    => /\ checkout.discountAmount =
                            calculateDiscount(checkout.validation[1].discount[1],
                                              checkout.subtotal)
                       /\ checkout.discountAmount >= 0
                       /\ checkout.discountAmount <= checkout.subtotal)
           /\ checkout.response[1].total >= 0

\* ------------------------------------------------------------------------
\* {{ title | handleize }}: the filter applied to a string, and to its own
\* output
\* ------------------------------------------------------------------------
notFilter == << now, redis, tenantVars, dataVars, themeVars, svcVars, purgeVars,
                blockVars, reqVars, errVars, healthVars, checkoutVars, raceVars,
                limitVars, cartVars >>

Handleize(str) ==
    /\ handleCall.pc = "idle"
    /\ handleCall' = [IdleHandleCall EXCEPT !.pc = "applied", !.input = str,
                                            !.output = handleize(str)]
    /\ UNCHANGED notFilter

HandleizeAgain ==
    /\ handleCall.pc = "applied"
    /\ handleCall' = [handleCall EXCEPT !.pc = "reapplied",
                                        !.again = handleize(handleCall.output)]
    /\ UNCHANGED notFilter

HandleizeDone ==
    /\ handleCall.pc = "reapplied"
    /\ handleCall' = IdleHandleCall
    /\ UNCHANGED notFilter

NextFilter ==
    \/ \E str \in HandleInputs : Handleize(str)
    \/ HandleizeAgain
    \/ HandleizeDone

SpecFilter == Init /\ [][NextFilter]_vars

\* The input in lower case cut into its maximal runs of letters and digits,
\* and the runs joined by single hyphens
RECURSIVE Words(_, _, _)
Words(str, word, words) ==
    IF Len(str) = 0
    THEN IF Len(word) > 0 THEN Append(words, word) ELSE words
    ELSE IF IsAlnum(Head(str))
    THEN Words(Tail(str), Append(word, Head(str)), words)
    ELSE Words(Tail(str), << >>, IF Len(word) > 0 THEN Append(words, word) ELSE words)

RECURSIVE Join(_)
Join(words) ==
    IF Len(words) = 0 THEN << >>
    ELSE IF Len(words) = 1 THEN words[1]
    ELSE words[1] \o << "-" >> \o Join(Tail(words))

\* C24: handleize maps every input string to a string of lowercase letters,
\* digits and hyphens only, every run of other characters being collapsed
\* to one hyphen, with no hyphen at the start or the end ('My Cool
\* Product!!' gives 'my-cool-product'); applied to its own output it
\* changes nothing.
C24_HandleizeNormalForm ==
    handleCall.pc \in { "applied", "reapplied" }
        => LET out == handleCall.output
           IN  /\ \A i \in DOMAIN out : IsAlnum(out[i]) \/ out[i] = "-"
               /\ \A i \in DOMAIN out : out[i] = "-" => (i > 1 /\ i < Len(out))
               /\ \A i \in 1..(Len(out) - 1) : ~(out[i] = "-" /\ out[i + 1] = "-")
               /\ out = Join(Words(ToLowerCase(handleCall.input), << >>, << >>))
               /\ handleCall.input = SampleTitle
                    => out = << "m", "y", "-", "c", "o", "o", "l", "-",
                                "p", "r", "o", "d", "u", "c", "t" >>
               /\ handleCall.pc = "reapplied" => handleCall.again = out

C24_Witness ==
    /\ handleCall.pc = "reapplied"
    /\ handleCall.input = << "!", "B", " ", "-" >>
    /\ handleCall.output = << "b" >>
    /\ handleCall.again = << "b" >>

\* ------------------------------------------------------------------------
\* Two requests resolve a host while its mapping changes and is invalidated
\* ------------------------------------------------------------------------
\* The host both requests ask for
RaceHost == "h1"

NextTenantRace ==
    \/ \E m \in MappingValues : SetDomainMapping(RaceHost, m)
    \/ \E c \in AllTenantCalls : TenantStart(c, RaceHost)
    \/ \E c \in AllTenantCalls, f \in BOOLEAN : TenantCacheGet(c, f)
    \/ \E c \in AllTenantCalls, f \in BOOLEAN : TenantQuery(c, f)
    \/ \E c \in AllTenantCalls, f \in BOOLEAN : TenantSetex(c, f)
    \/ \E c \in AllTenantCalls : TenantReturn(c)
    \/ \E h \in Hosts : InvalidateTenantStart(h)
    \/ \E f \in BOOLEAN : InvalidateTenantDel(f)
    \/ InvalidateTenantDone

SpecTenantRace == Init /\ [][NextTenantRace]_vars

\* C25: once the mapping of a host has changed in the registry and a
\* following invalidateTenantCache(host) has completed, no
\* getTenantFromHost(host) that starts afterwards returns the tenant of
\* before the change, whatever other lookup of the host was in flight during
\* the change.
C25_NoPreChangeTenantAfterInvalidation ==
    \A c \in AllTenantCalls :
        (/\ tenantCall[c].pc = "done"
         /\ tenantCall[c].outcome = "return"
         /\ tenantCall[c].startedSettled
         /\ tenantCall[c].preChange # None
         /\ QueryTenant(domainMapping, tenantStatus, tenantCall[c].host)
                # tenantCall[c].preChange)
            => tenantCall[c].result # tenantCall[c].preChange

\* ------------------------------------------------------------------------
\* rateLimiter(req, res, next), one action per await
\* ------------------------------------------------------------------------
notLimit == << tenantVars, dataVars, themeVars, svcVars, purgeVars, blockVars, reqVars,
               errVars, healthVars, checkoutVars, filterVars, raceVars, cartVars >>

LimiterStart(r, ip) ==
    /\ limiter[r].pc = "idle"
    /\ limiter' = [limiter EXCEPT ![r] = [IdleLimiter EXCEPT !.pc = "get", !.ip = ip]]
    /\ UNCHANGED << notLimit, now, redis >>

\* const current = await redis.get(key);
\* const count = current ? parseInt(current, 10) : 0; if (count >= maxRequests) ...
LimiterGet(r, fails) ==
    LET call == limiter[r]
        current == RedisGet(redis, RateLimitKey(call.ip), now)
        count == IF current # None THEN parseInt(current[1]) ELSE 0
    IN  /\ call.pc = "get"
        /\ limiter' = [limiter EXCEPT ![r] =
              IF fails THEN LimiterCatch(call, "get")
              ELSE [call EXCEPT !.count = count,
                                !.atLimit = count >= rateLimitMaxRequests,
                                !.pc = IF count >= rateLimitMaxRequests THEN "ttl"
                                       ELSE "incr"]]
        /\ UNCHANGED << notLimit, now, redis >>

\* const ttl = await redis.ttl(key); ... return res.status(429).json(...)
LimiterTtl(r, fails) ==
    LET call == limiter[r]
    IN  /\ call.pc = "ttl"
        /\ limiter' = [limiter EXCEPT ![r] =
              IF fails THEN LimiterCatch(call, "ttl")
              ELSE [call EXCEPT !.pc = "done", !.outcome = "429",
                        !.retryAfter = RedisTtl(redis, RateLimitKey(call.ip), now)]]
        /\ UNCHANGED << notLimit, now, redis >>

\* const newCount = await redis.incr(key); without the expiry call
\* (newCount !== 1) the headers are set and next() is called
LimiterIncr(r, fails) ==
    LET call == limiter[r]
        key == RateLimitKey(call.ip)
        after == RedisIncr(redis, key, now)
        newCount == parseInt(after[Prefixed(key)].val)
        did == [call EXCEPT !.newCount = newCount, !.incremented = TRUE]
    IN  /\ call.pc = "incr"
        /\ IF fails
           THEN /\ limiter' = [limiter EXCEPT ![r] = LimiterCatch(call, "incr")]
                /\ UNCHANGED redis
           ELSE IF newCount = 1
           THEN /\ limiter' = [limiter EXCEPT ![r] = [did EXCEPT !.pc = "pexpire"]]
                /\ redis' = after
           ELSE /\ limiter' = [limiter EXCEPT ![r] =
                                    [did EXCEPT !.pc = "done", !.outcome = "next"]]
                /\ redis' = NotePassed(after, key)
        /\ UNCHANGED << notLimit, now >>

\* if (newCount === 1) await redis.pexpire(key, windowMs); ... next()
LimiterPExpire(r, fails) ==
    LET call == limiter[r]
        key == RateLimitKey(call.ip)
    IN  /\ call.pc = "pexpire"
        /\ IF fails
           THEN /\ limiter' = [limiter EXCEPT ![r] = LimiterCatch(call, "pexpire")]
                /\ UNCHANGED redis
           ELSE /\ limiter' = [limiter EXCEPT ![r] =
                                    [call EXCEPT !.pc = "done", !.outcome = "next"]]
                /\ redis' = NotePassed(RedisPExpire(redis, key, rateLimitWindowMs, now), key)
        /\ UNCHANGED << notLimit, now >>

LimiterDone(r) ==
    /\ limiter[r].pc = "done"
    /\ limiter' = [limiter EXCEPT ![r] = IdleLimiter]
    /\ UNCHANGED << notLimit, now, redis >>

NextLimiter ==
    \/ Tick(MaxLimiterTime)
    \/ \E r \in LimiterRequests, ip \in Clients : LimiterStart(r, ip)
    \/ \E r \in LimiterRequests, f \in BOOLEAN : LimiterGet(r, f)
    \/ \E r \in LimiterRequests, f \in BOOLEAN : LimiterTtl(r, f)
    \/ \E r \in LimiterRequests, f \in BOOLEAN : LimiterIncr(r, f)
    \/ \E r \in LimiterRequests, f \in BOOLEAN : LimiterPExpire(r, f)
    \/ \E r \in LimiterRequests : LimiterDone(r)

SpecLimiter == Init /\ [][NextLimiter]_vars

\* The counter of a client, if it exists
Counter(ip) == Prefixed(RateLimitKey(ip))

\* C26: for every client IP and every interleaving of concurrent requests,
\* at most rateLimitMaxRequests requests are passed on to the next handler
\* between the creation of the counter rate_limit:{ip} and its expiry; a
\* request that finds the counter at the limit gets 429 and does not
\* increment it; a request that meets a cache error is let through.
C26_AtMostMaxPassedPerCounter ==
    /\ \A ip \in Clients :
          Counter(ip) \in DOMAIN redis => redis[Counter(ip)].passed <= rateLimitMaxRequests
    /\ \A r \in LimiterRequests :
          limiter[r].pc = "done"
            => /\ (limiter[r].atLimit /\ limiter[r].failedAt = "none")
                    => (limiter[r].outcome = "429" /\ ~limiter[r].incremented)
               /\ limiter[r].failedAt # "none" => limiter[r].outcome = "next"

\* C27: whenever the counter rate_limit:{ip} exists it carries an expiry of
\* one window (so a client answered 429 is admitted again after it), also
\* when the expiry call failed; between the increment and the expiry call
\* of the request that created it the counter is not looked at.
C27_CounterAlwaysExpires ==
    \A ip \in Clients :
        (/\ Counter(ip) \in DOMAIN redis
         /\ \A r \in LimiterRequests :
                ~(limiter[r].pc = "pexpire" /\ limiter[r].ip = ip))
            => /\ redis[Counter(ip)].exp # NoExpiry
               /\ redis[Counter(ip)].exp <= now + rateLimitWindowMs \div 1000

\* ------------------------------------------------------------------------
\* useCartStore: the operations of the store
\* ------------------------------------------------------------------------
notCart == << now, redis, tenantVars, dataVars, themeVars, svcVars, purgeVars, blockVars,
              reqVars, errVars, healthVars, checkoutVars, filterVars, raceVars,
              limitVars >>

Operation(op, variantId, quantity) ==
    [op |-> op, variantId |-> variantId, quantity |-> quantity, before |-> cart.items]

AddItem(item) ==
    /\ \A i \in DOMAIN cart.items :
          cart.items[i].variantId = item.variantId
            => cart.items[i].quantity + One <= MaxQuantity * One
    /\ cart' = [addItem(cart, item) EXCEPT !.last = Operation("addItem", item.variantId, 0)]
    /\ UNCHANGED notCart

RemoveItem(variantId) ==
    /\ cart' = [removeItem(cart, variantId) EXCEPT
                    !.last = Operation("removeItem", variantId, 0)]
    /\ UNCHANGED notCart

UpdateQuantity(variantId, quantity) ==
    /\ cart' = [updateQuantity(cart, variantId, quantity) EXCEPT
                    !.last = Operation("updateQuantity", variantId, quantity)]
    /\ UNCHANGED notCart

ClearCart ==
    /\ cart' = [clearCart(cart) EXCEPT !.last = Operation("clearCart", 0, 0)]
    /\ UNCHANGED notCart

NextCart ==
    \/ \E item \in CartVariants : AddItem(item)
    \/ \E v \in VariantIds : RemoveItem(v)
    \/ \E v \in VariantIds, q \in QuantityArguments : UpdateQuantity(v, q)
    \/ ClearCart

SpecCart == Init /\ [][NextCart]_vars

\* The item of a variant in a list of items, if there is one
ItemsOf(items, variantId) == SelectSeq(items, LAMBDA item : item.variantId = variantId)

Others(items, variantId) == SelectSeq(items, LAMBDA item : item.variantId # variantId)

\* What C28 says apart from the least quantity: no variant twice; addItem of
\* a variant in the cart adds exactly 1 to it and leaves the others alone;
\* updateQuantity with 0 or less removes the item.
CartOperationsAsStated ==
    /\ \A i, j \in DOMAIN cart.items :
          cart.items[i].variantId = cart.items[j].variantId => i = j
    /\ (cart.last.op = "addItem" /\ InCart(cart.last.before, cart.last.variantId))
          => /\ Len(cart.items) = Len(cart.last.before)
             /\ \A i \in DOMAIN cart.items :
                   cart.items[i] =
                     IF cart.last.before[i].variantId = cart.last.variantId
                     THEN [cart.last.before[i] EXCEPT !.quantity = @ + One]
                     ELSE cart.last.before[i]
    /\ (cart.last.op = "updateQuantity" /\ cart.last.quantity <= 0)
          => /\ ~InCart(cart.items, cart.last.variantId)
             /\ cart.items = Others(cart.last.before, cart.last.variantId)

\* C28: after any sequence of addItem, removeItem, updateQuantity
\* and clearCart no two items have the same variantId and every item has a
\* quantity of at least 1; addItem of a variant in the cart raises its
\* quantity by exactly 1 and leaves the others unchanged; updateQuantity
\* with a quantity of 0 or less removes the item.
C28_QuantityAtLeastOne ==
    /\ CartOperationsAsStated
    /\ \A i \in DOMAIN cart.items : cart.items[i].quantity >= One

\* C29: after every operation the stored totals are a function of the items
\* alone: subtotal is the sum of price times quantity, tax 21% of it,
\* shipping 0 above a subtotal of 50 and 5.95 otherwise, total their sum; so
\* an empty cart has the same totals whether clearCart emptied it or the
\* removal of its last item.
C29_TotalsFunctionOfItems ==
    cart.last.op # "none"
        => /\ cart.subtotal = CartSubtotal(cart.items, 1, 0)
           /\ cart.tax = (cart.subtotal * 21) \div 100
           /\ cart.shipping = IF cart.subtotal > 5000 THEN 0 ELSE 595
           /\ cart.total = cart.subtotal + cart.tax + cart.shipping

====
